---- MODULE Spec2Model ----
(***************************************************************************)
(* A model of the execution engine of EC2 macOS Init: the run-type gate    *)
(* (Module.ShouldRun), the priority-group scheduler (run), the instance    *)
(* history store (GetInstanceHistory / WriteHistoryFile) and the per-boot  *)
(* fatal counter (computeExitCode).                                        *)
(*                                                                         *)
(* The specifications share the variables:                                 *)
(*   Spec        a machine that boots, and on which launchd starts `run`   *)
(*               again and again; the goroutines of a priority group       *)
(*               interleave;                                               *)
(*   SpecGate    Module.ShouldRun applied to modules, instance ids and     *)
(*               history lists drawn from bounded sets;                    *)
(*   SpecGuard   computeExitCode called again and again in one boot;       *)
(*   SpecBoot    the invocations of run of one boot, each one step;        *)
(*   SpecWrite   safeWrite step by step, with crashes;                     *)
(*   SpecModule  validateModule and identifyModule of one declaration;     *)
(*   SpecConfig  ValidateAndIdentify of one configuration;                 *)
(*   SpecProbe   SetupInstanceID against an IMDS that may never answer.    *)
(*   SpecPrioritize  PrioritizeModules on the Go slice, then the loop of   *)
(*               run over the buckets;                                     *)
(*   SpecKey     generateHistoryKey of one module;                         *)
(*   SpecClean   the command `clean` and the start of the next run;        *)
(*   SpecSentinel  the goroutines of one bucket writing the aggregate      *)
(*               fatal flag and module name.                               *)
(*   SpecRead    GetInstanceHistory on a history directory with missing,   *)
(*               empty, irregular, unreadable and malformed history files, *)
(*               and what run does with its result;                        *)
(*   SpecImds    UpdateInstanceID against IMDS responses of any status;    *)
(*   SpecStore   run and clean invoked again and again, on changing        *)
(*               instances, on a history directory that starts empty;      *)
(*   SpecReconfig  runs of a one-module configuration whose name, priority, *)
(*               type and run type are edited between runs;                *)
(*   SpecIdentify  toml.Decode and identifyModule of one [[Module]] table  *)
(*               whose sub-tables may be absent, empty or hold defaults;   *)
(*   SpecDefaults  the loop of SystemConfigModule.Do over ModifyDefaults and *)
(*               the goroutines it starts;                                 *)
(*   SpecPassword  randomizePassword statement by statement, each command  *)
(*               succeeding or failing, called again at later boots;       *)
(*   SpecRetry   retry(attempts, sleep, f) for an f that fails or succeeds at *)
(*               each call.                                                *)
(***************************************************************************)
EXTENDS Integers, Sequences, FiniteSets, TLC

(***************************************************************************)
(* Bounds of the model.                                                    *)
(***************************************************************************)
MaxInstances == 2   \* instance ids the machine image is booted on
MaxRuns == 3        \* invocations of `run` in one behaviour
MaxHist == 2        \* SpecGate: entries of a history list
MaxRec == 1         \* SpecGate: records of one history entry
MaxCalls == 102     \* SpecGuard: calls of computeExitCode in one boot
MaxBootRuns == 102  \* SpecBoot: invocations of run in one boot
MaxBytes == 2       \* SpecWrite: length of a file's contents
MaxPriority == 2    \* SpecModule: the largest PriorityGroup declared
MaxPlan == 3        \* SpecConfig: modules of one configuration
MaxGroup == 4       \* SpecPrioritize: the largest PriorityGroup of a plan
MaxTasks == 3       \* SpecSentinel: modules of the bucket
MaxImdsCalls == 4   \* SpecImds: calls of UpdateInstanceID
MaxDefaults == 3    \* SpecDefaults: entries of ModifyDefaults
MaxPwCalls == 3     \* SpecPassword: calls of randomizePassword
MaxAttempts == 6    \* SpecRetry: the parameter attempts of retry

(***************************************************************************)
(* Program constants.                                                      *)
(***************************************************************************)
historyVersion == 1
PerBootFatalLimit == 100
setupMaxAttempts == 600

InstanceName(k) == "i-" \o ToString(k)
InstanceIDs == {InstanceName(k) : k \in 1..MaxInstances}

(***************************************************************************)
(* The configuration (init.toml) of the modelled machine, after            *)
(* ValidateAndIdentify: unique names, one run type each, PriorityGroup     *)
(* >= 1, a type tag.  Priority 2 is unused, so the second bucket is empty. *)
(* "sys" is a SystemConfig module with SecureSSHDConfig set.               *)
(***************************************************************************)
MkModule(name, prio, fatal, runType, type) ==
    [Name |-> name, PriorityGroup |-> prio, FatalOnError |-> fatal,
     RunOnce |-> (runType = "RunOnce"),
     RunPerBoot |-> (runType = "RunPerBoot"),
     RunPerInstance |-> (runType = "RunPerInstance"),
     Type |-> type, Success |-> FALSE]

Modules ==
    << MkModule("net",  1, TRUE,  "RunPerBoot",     "networkcheck"),
       MkModule("cmd",  1, FALSE, "RunPerInstance", "command"),
       MkModule("once", 3, TRUE,  "RunOnce",        "command"),
       MkModule("sys",  3, FALSE, "RunPerInstance", "systemconfig") >>

Names == {Modules[k].Name : k \in 1..Len(Modules)}
ModuleNamed(n) == CHOOSE m \in {Modules[k] : k \in 1..Len(Modules)} : m.Name = n

(***************************************************************************)
(* Module.generateHistoryKey: the three ifs are not exclusive, a later     *)
(* one overwrites runType.                                                 *)
(***************************************************************************)
runTypeOf(m) ==
    LET r1 == IF m.RunOnce THEN "RunOnce" ELSE ""
        r2 == IF m.RunPerInstance THEN "RunPerInstance" ELSE r1
    IN  IF m.RunPerBoot THEN "RunPerBoot" ELSE r2

\* C22, mutant: the type tag is left out of the key
generateHistoryKeyWithoutType(m) ==
    ToString(m.PriorityGroup) \o "_" \o runTypeOf(m) \o "_" \o m.Name

\* C36, mutant: the priority group is left out of the key
generateHistoryKeyWithoutPriority(m) ==
    runTypeOf(m) \o "_" \o m.Type \o "_" \o m.Name

generateHistoryKey(m) ==
    ToString(m.PriorityGroup) \o "_" \o runTypeOf(m) \o "_" \o m.Type \o "_" \o m.Name

(***************************************************************************)
(* Module.ShouldRun.                                                       *)
(***************************************************************************)
\* the inner loop over instance.ModuleHistories
keySucceeded(key, moduleHistories) ==
    \E r \in 1..Len(moduleHistories) :
        key = moduleHistories[r].Key /\ moduleHistories[r].Success

\* the RunPerInstance branch: the loop returns at the first entry of the
\* current instance, whatever that entry holds
shouldRunPerInstance(key, instanceID, history) ==
    LET matching == {k \in 1..Len(history) : history[k].InstanceID = instanceID}
    IN  IF matching = {}
        THEN TRUE
        ELSE LET first == CHOOSE k \in matching : \A l \in matching : k <= l
             IN  ~keySucceeded(key, history[first].ModuleHistories)

\* the RunOnce branch: every entry is searched
shouldRunOnce(key, history) ==
    ~\E k \in 1..Len(history) : keySucceeded(key, history[k].ModuleHistories)

\* C5, mutant: the RunOnce branch searches the current instance only
ShouldRunOnceAsPerInstance(m, instanceID, history) ==
    IF m.RunPerBoot THEN TRUE
    ELSE IF m.RunPerInstance \/ m.RunOnce
         THEN shouldRunPerInstance(generateHistoryKey(m), instanceID, history)
    ELSE FALSE

\* C7, mutant: the early return of RunPerBoot is missing and the history is
\* consulted as for RunOnce
ShouldRunPerBootGated(m, instanceID, history) ==
    IF m.RunPerInstance
    THEN shouldRunPerInstance(generateHistoryKey(m), instanceID, history)
    ELSE IF m.RunOnce \/ m.RunPerBoot
         THEN shouldRunOnce(generateHistoryKey(m), history)
    ELSE FALSE

\* C35, mutant: any record of the key, successful or not, suppresses the
\* module
ShouldRunUnlessRecorded(m, instanceID, history) ==
    IF m.RunPerBoot THEN TRUE
    ELSE IF m.RunPerInstance
         THEN ~\E k \in 1..Len(history) :
                /\ history[k].InstanceID = instanceID
                /\ \E r \in 1..Len(history[k].ModuleHistories) :
                    history[k].ModuleHistories[r].Key = generateHistoryKey(m)
    ELSE IF m.RunOnce
         THEN ~\E k \in 1..Len(history) :
                \E r \in 1..Len(history[k].ModuleHistories) :
                    history[k].ModuleHistories[r].Key = generateHistoryKey(m)
    ELSE FALSE

ShouldRun(m, instanceID, history) ==
    IF m.RunPerBoot THEN TRUE
    ELSE IF m.RunPerInstance
         THEN shouldRunPerInstance(generateHistoryKey(m), instanceID, history)
    ELSE IF m.RunOnce
         THEN shouldRunOnce(generateHistoryKey(m), history)
    ELSE FALSE

(***************************************************************************)
(* InitConfig.PrioritizeModules: ModulesByPriority grows to the module's   *)
(* priority (the added buckets are empty) and the module is appended to    *)
(* bucket PriorityGroup-1 (index PriorityGroup here: sequences start at 1).*)
(***************************************************************************)
RECURSIVE prioritizeFrom(_, _, _)
prioritizeFrom(modules, k, byPriority) ==
    IF k > Len(modules) THEN byPriority
    ELSE LET m == modules[k]
             grown == IF m.PriorityGroup > Len(byPriority)
                      THEN byPriority \o [x \in 1..(m.PriorityGroup - Len(byPriority)) |-> << >>]
                      ELSE byPriority
         IN  prioritizeFrom(modules, k + 1,
                            [grown EXCEPT ![m.PriorityGroup] = Append(@, m)])

PrioritizeModules(modules) == prioritizeFrom(modules, 1, << >>)

(***************************************************************************)
(* The history store.  The history directory holds one subdirectory per    *)
(* instance id; disk[id].dir says whether it exists and disk[id].file is   *)
(* << >> (no history.json) or << h >> (history.json holding h).            *)
(***************************************************************************)
NoHistory == [dir |-> FALSE, file |-> << >>]

\* InitConfig.CreateDirectories
CreateDirectories(d, instanceID) ==
    IF d[instanceID].dir THEN d ELSE [d EXCEPT ![instanceID].dir = TRUE]

\* InitConfig.GetInstanceHistory: ReadDir lists the subdirectories sorted by
\* name; every history file found is appended
RECURSIVE readFrom(_, _)
readFrom(d, k) ==
    IF k > MaxInstances THEN << >>
    ELSE LET e == d[InstanceName(k)]
         IN  (IF e.dir /\ e.file # << >> THEN e.file ELSE << >>) \o readFrom(d, k + 1)

GetInstanceHistory(d) == readFrom(d, 1)

RECURSIVE flatten(_)
flatten(buckets) ==
    IF buckets = << >> THEN << >> ELSE Head(buckets) \o flatten(Tail(buckets))

\* C10, mutant: every module of the plan is recorded as succeeded
ModuleHistoryOfSucceeded(m) == [Key |-> generateHistoryKey(m), Success |-> TRUE]

\* the record WriteHistoryFile appends for one module
ModuleHistoryOf(m) == [Key |-> generateHistoryKey(m), Success |-> m.Success]

\* C34, mutant: the History records the id of the first instance the image
\* was booted on
HistoryOfFirstInstance(instanceID, byPriority) ==
    LET ms == flatten(byPriority)
    IN  [InstanceID |-> InstanceName(1),
         ModuleHistories |-> [k \in 1..Len(ms) |-> ModuleHistoryOf(ms[k])],
         Version |-> historyVersion]

\* the History value WriteHistoryFile marshals: one record per module of
\* ModulesByPriority, bucket after bucket
HistoryOf(instanceID, byPriority) ==
    LET ms == flatten(byPriority)
    IN  [InstanceID |-> instanceID,
         ModuleHistories |-> [k \in 1..Len(ms) |-> ModuleHistoryOf(ms[k])],
         Version |-> historyVersion]

\* C11, mutant: the records of the previous file are kept and the new ones
\* appended
WriteHistoryFileMerged(d, instanceID, byPriority) ==
    LET new == HistoryOf(instanceID, byPriority)
        old == IF d[instanceID].file = << >> THEN << >>
               ELSE d[instanceID].file[1].ModuleHistories
    IN  [d EXCEPT ![instanceID] =
            [dir |-> TRUE,
             file |-> << [new EXCEPT !.ModuleHistories = old \o @] >>]]

\* WriteHistoryFile, when CreateDirectories and safeWrite succeed: the file of
\* the current instance is replaced
WriteHistoryFile(d, instanceID, byPriority) ==
    [d EXCEPT ![instanceID] = [dir |-> TRUE,
                               file |-> << HistoryOf(instanceID, byPriority) >>]]

(***************************************************************************)
(* The crash-loop guard.  fatalCountFile is << >> when the counter file is *)
(* absent and << n >> when it holds {"count": n}.                          *)
(***************************************************************************)
\* C12, mutant: an absent file reads as 0
readFatalCountFromZero(file) == IF file = << >> THEN 0 ELSE file[1]

\* FatalCount.readFatalCount: an absent file reads as 1
readFatalCount(file) == IF file = << >> THEN 1 ELSE file[1]

\* InitConfig.RetriesExceeded
RetriesExceeded(file) == readFatalCount(file) > PerBootFatalLimit

\* computeExitCode: the code returned.  readErr: the file exists and cannot
\* be read or parsed
computeExitCode(e, file, readErr) ==
    IF readErr THEN 1
    ELSE IF RetriesExceeded(file) THEN 0
    ELSE e

\* C26, mutant: IncrementFatalCount starts from the initial count instead of
\* the count read
fatalCountAfterInitial(file, readErr, writeErr) ==
    IF readErr \/ RetriesExceeded(file) \/ writeErr THEN file
    ELSE << readFatalCount(<< >>) + 1 >>

\* computeExitCode: the counter file it leaves.  writeErr: IncrementFatalCount
\* fails, which is logged only
fatalCountAfter(file, readErr, writeErr) ==
    IF readErr \/ RetriesExceeded(file) \/ writeErr THEN file
    ELSE << readFatalCount(file) + 1 >>

(***************************************************************************)
(* State.                                                                  *)
(***************************************************************************)
VARIABLES
    \* the machine
    disk,               \* the instance history directory
    fatalCountFile,     \* /tmp/.ec2-macos-init-fatal-counts.json
    bootInstance,       \* the instance id IMDS answers in the current boot
    runs,               \* invocations of `run` so far
    \* the process
    pc,                 \* "init" | "loop" | "wait" | "write" | "final" | "exited"
    exitCode,           \* the exit status, when pc = "exited"
    exitAt,             \* where the process ended, when pc = "exited":
                        \* a site of StartupSites | "do" | "write" | "aggregate"
                        \* | "return"
    instanceID,         \* c.IMDS.InstanceID
    InstanceHistory,    \* c.InstanceHistory
    ModulesByPriority,  \* c.ModulesByPriority
    i,                  \* the bucket index of the loop of run
    wg,                 \* the WaitGroup counter of the bucket
    task,               \* the goroutine of each module, by module name
    aggregateFatal,
    aggFatalModuleName,
    \* history variables of the model
    historyWrites,      \* replacements of the history file in this run
    recordedOn,         \* <<name, id>>: in some run so far on that instance, an
                        \* invocation of the module returned without error
                        \* and the run wrote its history file
    counterReadErr,     \* the computeExitCode of this run could not read the
                        \* counter file
    \* SpecGate: one call of ShouldRun
    gModule, gInstanceID, gHistory, gResult,
    \* SpecGuard: calls of computeExitCode in one boot
    guardCalls,         \* calls since the counter file was last cleared
    guardClean,         \* no call since then failed to read or write the file
    guardReq,           \* the code requested by the last call
    guardRet,           \* the code returned by the last call
    \* SpecBoot: invocations of run in one boot, each by the way it ends
    bootRuns,           \* invocations of run since the boot
    bootClean,          \* no read or write of the counter file failed since
    nonzeroExits,       \* those that ended with a nonzero exit status
    \* SpecWrite: one call of safeWrite(path, data)
    swFs,               \* the directory: file name -> << >> (absent) or << bytes >>
    swPc,               \* "call" | "created" | "written" | "synced" | "renamed"
                        \* | "returned" | "crashed"
    swData,             \* the bytes to write
    swName,             \* f.Name()
    swPrior,            \* what path held when safeWrite was called
    swRenamed,          \* os.Rename has taken place
    \* SpecModule: validateModule and identifyModule of one declaration
    cModule, cValidate, cIdentify,
    \* SpecConfig: ValidateAndIdentify of one configuration
    cModules, cResult,
    \* SpecProbe: one call of SetupInstanceID
    attempt,            \* the local variable of SetupInstanceID
    probePc,            \* "loop" | "returned"
    probeErr,           \* the error returned, when probePc = "returned"
    probeInstanceID,    \* c.IMDS.InstanceID
    probeCalls,         \* calls of c.IMDS.UpdateInstanceID so far
    \* SpecPrioritize
    pmModules,          \* c.Modules
    pmPc,               \* "range" | "returned" | "done"
    pmK,                \* the module the range loop of PrioritizeModules is at
    pmSlice,            \* c.ModulesByPriority: backing array and length
    pmI,                \* i of the loop of run over c.ModulesByPriority
    pmVisited,          \* the tasks started at each iteration of that loop
    \* SpecKey
    kModule,            \* the module generateHistoryKey is called on
    kKey,               \* << >>, or << the key returned >>
    \* SpecClean
    clDisk,             \* the history directory
    clBoot,             \* the instance id IMDS answers with
    clPrior,            \* the history directory before the clean command
    clCmd,              \* "none" | "clean" | "clean -all"
    clExit,             \* the exit code of the clean command
    clPc,               \* "idle" | "cleaned" | "read" | "gated"
    clInstanceHistory,  \* c.InstanceHistory of the next run
    clReadErr,          \* GetInstanceHistory of the next run returned an error
    clGate,             \* << >>, or the result of ShouldRun for each module
    \* SpecSentinel
    snFatal,            \* FatalOnError of each module of the bucket
    snTask,             \* where the goroutine of each module is
    snWg,               \* the counter of the bucket's WaitGroup
    snFlag,             \* aggregateFatal
    snName,             \* aggFatalModuleName: the two words of the string value
    snPc,               \* run: "wait" | "joined" | "fatal" | "returned"
    snReported,          \* the module name in the message of the aggregate fatal
    \* SpecRead
    rdDir,              \* the history directory GetInstanceHistory reads
    rdDirErr,           \* ioutil.ReadDir of the history directory fails
    rdCounter,          \* the fatal counter file
    rdPc,               \* "call" | "read" | "exited" | "loop"
    rdHistory,          \* c.InstanceHistory
    rdErr,              \* the error returned: "none" | "io" | "malformed"
    rdExit,             \* the exit status of run
    rdGated,            \* modules whose gate has been evaluated
    \* SpecImds
    imToken,            \* i.token
    imInstanceID,       \* i.InstanceID
    imErr,              \* the last call of UpdateInstanceID returned an error
    imStatus,           \* the HTTP status of the last instance-id response, 0 before any
    imAccepted,         \* the HTTP status of the response stored as instance id, 0 when none
    imCalls,            \* calls of UpdateInstanceID so far
    \* SpecStore
    stDisk,             \* the history directory, one entry per instance id
    stBoot,             \* c.IMDS.InstanceID of the invocation
    stHistory,          \* c.InstanceHistory as the last run read it
    stCmd,              \* the last invocation: "none" | "run" | "clean" | "clean -all"
    stCleaned,          \* instance ids whose subdirectory a clean has removed
    \* SpecReconfig
    rcModule,           \* the declaration of the module in init.toml
    rcDisk,             \* the history directory
    rcBoot,             \* c.IMDS.InstanceID
    rcPrev,             \* << >>, or << m >>: the module as the last run recorded it
    rcPc,               \* "idle" | "gated"
    rcHistory,          \* c.InstanceHistory of the run
    rcTask,             \* the goroutine of the module: "none" | "do" | "skipped"
    \* SpecIdentify
    idToml,             \* the [[Module]] table of init.toml: its sub-tables
    idModule,           \* the Module toml.Decode fills
    idResult,           \* << >>, or << what identifyModule returned >>
    \* SpecDefaults
    dfEntries,          \* c.ModifyDefaults
    dfK,                \* the entry the range loop is at
    dfPc,               \* Do: "copy" | "copied" | "go" | "wait" | "returned"
    dfM,                \* m, the variable of the range loop
    dfTask,             \* the goroutine started at each iteration
    dfDid,              \* what each goroutine passed to the defaults command
    dfWg,               \* the WaitGroup counter
    \* SpecPassword
    pwUser,             \* c.User
    pwPc,               \* "idle" | "user" | "token" | "disable" | "generate" | "change" | "deferred" | "returned"
    pwDisabledTag,      \* the user record holds ;DisabledTags;SecureToken
    pwPasswordSet,      \* dscl -passwd has changed the password
    pwDefer,            \* the deferred function has been registered by this call
    pwEnableCalls,      \* calls of enableSecureTokenCreation by this call
    pwEnableErr,        \* enableSecureTokenCreation returned an error in this call
    pwResult,           \* the results message and err of this call
    pwCalls,            \* calls of randomizePassword so far
    \* SpecRetry
    rtAttempts,         \* the parameter attempts
    rtSleep,            \* the parameter sleep
    rtI,                \* i
    rtPc,               \* "loop" | "sleep" | "returned"
    rtOutcomes,         \* whether each call of f so far returned an error
    rtSlept,            \* the time spent in time.Sleep
    rtErr               \* << >>, or << the error returned is not nil >>

machineVars == << disk, fatalCountFile, bootInstance, runs >>
processVars == << pc, exitCode, exitAt, instanceID, InstanceHistory, ModulesByPriority,
                  i, wg, task, aggregateFatal, aggFatalModuleName >>
ghostVars   == << historyWrites, recordedOn, counterReadErr >>
gateVars    == << gModule, gInstanceID, gHistory, gResult >>
guardVars   == << guardCalls, guardClean, guardReq, guardRet >>
\* the variables of the specifications of single operations
bootVars    == << bootRuns, bootClean, nonzeroExits >>
writeVars   == << swFs, swPc, swData, swName, swPrior, swRenamed >>
moduleVars  == << cModule, cValidate, cIdentify >>
configVars  == << cModules, cResult >>
probeVars   == << attempt, probePc, probeErr, probeInstanceID, probeCalls >>
prioritizeVars == << pmModules, pmPc, pmK, pmSlice, pmI, pmVisited >>
earlyVars   == << gateVars, guardVars, bootVars, writeVars, moduleVars, configVars,
                  probeVars >>
keyVars     == << kModule, kKey >>
cleanVars   == << clDisk, clBoot, clPrior, clCmd, clExit, clPc, clInstanceHistory,
                  clReadErr, clGate >>
sentinelVars == << snFatal, snTask, snWg, snFlag, snName, snPc, snReported >>
midVars     == << prioritizeVars, keyVars, cleanVars, sentinelVars >>
readVars == << rdDir, rdDirErr, rdCounter, rdPc, rdHistory, rdErr, rdExit, rdGated >>
imdsVars == << imToken, imInstanceID, imErr, imStatus, imAccepted, imCalls >>
storeVars == << stDisk, stBoot, stHistory, stCmd, stCleaned >>
reconfigVars == << rcModule, rcDisk, rcBoot, rcPrev, rcPc, rcHistory, rcTask >>
identifyVars == << idToml, idModule, idResult >>
defaultsVars == << dfEntries, dfK, dfPc, dfM, dfTask, dfDid, dfWg >>
passwordVars == << pwUser, pwPc, pwDisabledTag, pwPasswordSet, pwDefer, pwEnableCalls, pwEnableErr, pwResult, pwCalls >>
retryVars == << rtAttempts, rtSleep, rtI, rtPc, rtOutcomes, rtSlept, rtErr >>
lastVars == << readVars, imdsVars, storeVars, reconfigVars, identifyVars, defaultsVars, passwordVars, retryVars >>
laterVars   == << midVars, lastVars >>
unitVars    == << earlyVars, laterVars >>
\* what each specification of a single operation leaves alone
coreVars    == << machineVars, processVars, ghostVars >>
exceptGate   == << coreVars, guardVars, bootVars, writeVars, moduleVars, configVars, probeVars,
                   laterVars >>
exceptGuard  == << disk, bootInstance, runs, processVars, ghostVars,
                   gateVars, bootVars, writeVars, moduleVars, configVars, probeVars,
                   laterVars >>
exceptBoot   == << disk, bootInstance, runs, processVars, ghostVars,
                   gateVars, guardVars, writeVars, moduleVars, configVars, probeVars,
                   laterVars >>
exceptWrite  == << coreVars, gateVars, guardVars, bootVars, moduleVars, configVars, probeVars,
                   laterVars >>
exceptModule == << coreVars, gateVars, guardVars, bootVars, writeVars, configVars, probeVars,
                   laterVars >>
exceptConfig == << coreVars, gateVars, guardVars, bootVars, writeVars, moduleVars, probeVars,
                   laterVars >>
exceptProbe  == << coreVars, gateVars, guardVars, bootVars, writeVars, moduleVars, configVars,
                   laterVars >>
exceptPrioritize == << coreVars, earlyVars, keyVars, cleanVars, sentinelVars,
                   lastVars >>
exceptKey    == << coreVars, earlyVars, prioritizeVars, cleanVars, sentinelVars,
                   lastVars >>
exceptClean  == << coreVars, earlyVars, prioritizeVars, keyVars, sentinelVars,
                   lastVars >>
exceptSentinel == << coreVars, earlyVars, prioritizeVars, keyVars, cleanVars,
                   lastVars >>
exceptRead == << coreVars, earlyVars, midVars, imdsVars, storeVars, reconfigVars, identifyVars, defaultsVars, passwordVars, retryVars >>
exceptImds == << coreVars, earlyVars, midVars, readVars, storeVars, reconfigVars, identifyVars, defaultsVars, passwordVars, retryVars >>
exceptStore == << coreVars, earlyVars, midVars, readVars, imdsVars, reconfigVars, identifyVars, defaultsVars, passwordVars, retryVars >>
exceptReconfig == << coreVars, earlyVars, midVars, readVars, imdsVars, storeVars, identifyVars, defaultsVars, passwordVars, retryVars >>
exceptIdentify == << coreVars, earlyVars, midVars, readVars, imdsVars, storeVars, reconfigVars, defaultsVars, passwordVars, retryVars >>
exceptDefaults == << coreVars, earlyVars, midVars, readVars, imdsVars, storeVars, reconfigVars, identifyVars, passwordVars, retryVars >>
exceptPassword == << coreVars, earlyVars, midVars, readVars, imdsVars, storeVars, reconfigVars, identifyVars, defaultsVars, retryVars >>
exceptRetry == << coreVars, earlyVars, midVars, readVars, imdsVars, storeVars, reconfigVars, identifyVars, defaultsVars, passwordVars >>
vars == << machineVars, processVars, ghostVars, unitVars >>

(***************************************************************************)
(* A goroutine of run is                                                   *)
(*   "none"     not started (its bucket was not reached in this run)       *)
(*   "spawned"  started, the gate not yet evaluated                        *)
(*   "do"       the gate passed, inside the module's Do                    *)
(*   "name"     Do returned an error, aggregateFatal is set, the name not  *)
(*   "skipped" | "ok" | "err"   finished (wg.Done called)                  *)
(*   "exited"   its Do terminated the process                              *)
(***************************************************************************)
Finished == {"skipped", "ok", "err"}
Started == {"spawned", "do", "name", "exited"} \cup Finished
Invoked == {"do", "name", "ok", "err", "exited"}

Bucket(b) == ModulesByPriority[b + 1]
priorityByName == [n \in Names |-> ModuleNamed(n).PriorityGroup]
PriorityOf(n) == priorityByName[n]

InitMachine ==
    /\ disk = [id \in InstanceIDs |-> NoHistory]
    /\ bootInstance \in InstanceIDs
    /\ runs = 0
    /\ recordedOn = {}

InitProcess ==
    /\ pc = "init"
    /\ exitCode = 0
    /\ exitAt = ""
    /\ instanceID = ""
    /\ InstanceHistory = << >>
    /\ ModulesByPriority = << >>
    /\ i = 0
    /\ wg = 0
    /\ task = [n \in Names |-> "none"]
    /\ aggregateFatal = FALSE
    /\ aggFatalModuleName = ""
    /\ historyWrites = 0
    /\ counterReadErr = FALSE

InitGateIdle ==
    /\ gModule = Modules[1]
    /\ gInstanceID = ""
    /\ gHistory = << >>
    /\ gResult = << >>

InitGuardIdle ==
    /\ guardCalls = 0
    /\ guardClean = TRUE
    /\ guardReq = 0
    /\ guardRet = 0

InitBootIdle ==
    /\ bootRuns = 0
    /\ bootClean = TRUE
    /\ nonzeroExits = 0

InitWriteIdle ==
    /\ swFs = << >>
    /\ swPc = "call"
    /\ swData = << >>
    /\ swName = ""
    /\ swPrior = << >>
    /\ swRenamed = FALSE

InitModuleIdle ==
    /\ cModule = << >>
    /\ cValidate = << >>
    /\ cIdentify = << >>

InitConfigIdle ==
    /\ cModules = << >>
    /\ cResult = << >>

InitProbeIdle ==
    /\ attempt = 0
    /\ probePc = "loop"
    /\ probeErr = FALSE
    /\ probeInstanceID = ""
    /\ probeCalls = 0

InitPrioritizeIdle ==
    /\ pmModules = << >>
    /\ pmPc = "range"
    /\ pmK = 1
    /\ pmSlice = [arr |-> << >>, len |-> 0]
    /\ pmI = 0
    /\ pmVisited = << >>

InitEarlyIdle ==
    /\ InitGateIdle /\ InitGuardIdle /\ InitBootIdle /\ InitWriteIdle
    /\ InitModuleIdle /\ InitConfigIdle /\ InitProbeIdle

InitKeyIdle ==
    /\ kModule = Modules[1]
    /\ kKey = << >>

InitCleanIdle ==
    /\ clDisk = << >>
    /\ clBoot = ""
    /\ clPrior = << >>
    /\ clCmd = "none"
    /\ clExit = 0
    /\ clPc = "idle"
    /\ clInstanceHistory = << >>
    /\ clReadErr = FALSE
    /\ clGate = << >>

InitSentinelIdle ==
    /\ snFatal = << >>
    /\ snTask = << >>
    /\ snWg = 0
    /\ snFlag = FALSE
    /\ snName = [data |-> "", len |-> 0]
    /\ snPc = "wait"
    /\ snReported = [data |-> "", len |-> 0]

InitMidIdle ==
    /\ InitPrioritizeIdle /\ InitKeyIdle /\ InitCleanIdle /\ InitSentinelIdle

InitReadIdle ==
    /\ rdDir = << >>
    /\ rdDirErr = FALSE
    /\ rdCounter = << >>
    /\ rdPc = "call"
    /\ rdHistory = << >>
    /\ rdErr = "none"
    /\ rdExit = 0
    /\ rdGated = 0

InitImdsIdle ==
    /\ imToken = ""
    /\ imInstanceID = ""
    /\ imErr = FALSE
    /\ imStatus = 0
    /\ imAccepted = 0
    /\ imCalls = 0

InitStoreIdle ==
    /\ stDisk = << >>
    /\ stBoot = ""
    /\ stHistory = << >>
    /\ stCmd = "none"
    /\ stCleaned = {}

InitReconfigIdle ==
    /\ rcModule = << >>
    /\ rcDisk = << >>
    /\ rcBoot = ""
    /\ rcPrev = << >>
    /\ rcPc = "idle"
    /\ rcHistory = << >>
    /\ rcTask = "none"

InitIdentifyIdle ==
    /\ idToml = << >>
    /\ idModule = << >>
    /\ idResult = << >>

InitDefaultsIdle ==
    /\ dfEntries = << >>
    /\ dfK = 0
    /\ dfPc = "returned"
    /\ dfM = << >>
    /\ dfTask = << >>
    /\ dfDid = << >>
    /\ dfWg = 0

InitPasswordIdle ==
    /\ pwUser = ""
    /\ pwPc = "idle"
    /\ pwDisabledTag = FALSE
    /\ pwPasswordSet = FALSE
    /\ pwDefer = FALSE
    /\ pwEnableCalls = 0
    /\ pwEnableErr = FALSE
    /\ pwResult = << >>
    /\ pwCalls = 0

InitRetryIdle ==
    /\ rtAttempts = 0
    /\ rtSleep = 0
    /\ rtI = 0
    /\ rtPc = "returned"
    /\ rtOutcomes = << >>
    /\ rtSlept = 0
    /\ rtErr = << >>

InitLastIdle ==
    /\ InitReadIdle
    /\ InitImdsIdle
    /\ InitStoreIdle
    /\ InitReconfigIdle
    /\ InitIdentifyIdle
    /\ InitDefaultsIdle
    /\ InitPasswordIdle
    /\ InitRetryIdle

IdleButRead ==
    /\ InitEarlyIdle /\ InitMidIdle
    /\ InitImdsIdle
    /\ InitStoreIdle
    /\ InitReconfigIdle
    /\ InitIdentifyIdle
    /\ InitDefaultsIdle
    /\ InitPasswordIdle
    /\ InitRetryIdle

IdleButImds ==
    /\ InitEarlyIdle /\ InitMidIdle
    /\ InitReadIdle
    /\ InitStoreIdle
    /\ InitReconfigIdle
    /\ InitIdentifyIdle
    /\ InitDefaultsIdle
    /\ InitPasswordIdle
    /\ InitRetryIdle

IdleButStore ==
    /\ InitEarlyIdle /\ InitMidIdle
    /\ InitReadIdle
    /\ InitImdsIdle
    /\ InitReconfigIdle
    /\ InitIdentifyIdle
    /\ InitDefaultsIdle
    /\ InitPasswordIdle
    /\ InitRetryIdle

IdleButReconfig ==
    /\ InitEarlyIdle /\ InitMidIdle
    /\ InitReadIdle
    /\ InitImdsIdle
    /\ InitStoreIdle
    /\ InitIdentifyIdle
    /\ InitDefaultsIdle
    /\ InitPasswordIdle
    /\ InitRetryIdle

IdleButIdentify ==
    /\ InitEarlyIdle /\ InitMidIdle
    /\ InitReadIdle
    /\ InitImdsIdle
    /\ InitStoreIdle
    /\ InitReconfigIdle
    /\ InitDefaultsIdle
    /\ InitPasswordIdle
    /\ InitRetryIdle

IdleButDefaults ==
    /\ InitEarlyIdle /\ InitMidIdle
    /\ InitReadIdle
    /\ InitImdsIdle
    /\ InitStoreIdle
    /\ InitReconfigIdle
    /\ InitIdentifyIdle
    /\ InitPasswordIdle
    /\ InitRetryIdle

IdleButPassword ==
    /\ InitEarlyIdle /\ InitMidIdle
    /\ InitReadIdle
    /\ InitImdsIdle
    /\ InitStoreIdle
    /\ InitReconfigIdle
    /\ InitIdentifyIdle
    /\ InitDefaultsIdle
    /\ InitRetryIdle

IdleButRetry ==
    /\ InitEarlyIdle /\ InitMidIdle
    /\ InitReadIdle
    /\ InitImdsIdle
    /\ InitStoreIdle
    /\ InitReconfigIdle
    /\ InitIdentifyIdle
    /\ InitDefaultsIdle
    /\ InitPasswordIdle

InitLaterIdle ==
    /\ InitMidIdle /\ InitLastIdle

InitUnitsIdle ==
    /\ InitEarlyIdle /\ InitLaterIdle

\* The machine is followed from a boot on (no counter file), or from the
\* moment of a boot at which 100 invocations of run have ended at one of the
\* first steps, before anything was written to the history directory (the
\* counter file holds 101).
Init ==
    /\ InitMachine
    /\ fatalCountFile \in {<< >>, << PerBootFatalLimit + 1 >>}
    /\ InitProcess
    /\ InitUnitsIdle

(***************************************************************************)
(* The machine: a reboot clears /tmp and may come up as another instance   *)
(* (an image launched again); launchd starts `run`.                        *)
(***************************************************************************)
Reboot(id) ==
    /\ pc \in {"init", "exited"}
    /\ fatalCountFile' = << >>
    /\ bootInstance' = id
    /\ UNCHANGED << disk, runs, processVars, ghostVars, unitVars >>

\* a fatal exit through computeExitCode(e)
FatalExit(e, at, readErr, writeErr) ==
    /\ readErr => fatalCountFile # << >>
    /\ exitCode' = computeExitCode(e, fatalCountFile, readErr)
    /\ fatalCountFile' = fatalCountAfter(fatalCountFile, readErr, writeErr)
    /\ counterReadErr' = readErr
    /\ exitAt' = at
    /\ pc' = "exited"

(***************************************************************************)
(* run, lines 24-73: instance id, configuration, validation, buckets,      *)
(* history directory, history.                                             *)
(***************************************************************************)
RunStart ==
    /\ pc \in {"init", "exited"}
    /\ runs < MaxRuns
    /\ runs' = runs + 1
    /\ instanceID' = bootInstance
    /\ ModulesByPriority' = PrioritizeModules(Modules)
    /\ disk' = CreateDirectories(disk, bootInstance)
    /\ InstanceHistory' = GetInstanceHistory(disk')
    /\ i' = 0
    /\ wg' = 0
    /\ task' = [n \in Names |-> "none"]
    /\ aggregateFatal' = FALSE
    /\ aggFatalModuleName' = ""
    /\ historyWrites' = 0
    /\ counterReadErr' = FALSE
    /\ exitCode' = 0
    /\ exitAt' = ""
    /\ pc' = "loop"
    /\ UNCHANGED << fatalCountFile, bootInstance, recordedOn, unitVars >>

\* the codes run asks computeExitCode for
StartupCodes == {1, 65, 66, 73}

\* the steps of lines 24-73 that can fail, with the code requested there:
\* SetupInstanceID, ReadConfig, ValidateAndIdentify, CreateDirectories,
\* GetInstanceHistory (PrioritizeModules never returns an error)
StartupSites == {"imds", "config", "validate", "directories", "history"}

SiteCode(site) ==
    CASE site = "imds" -> 1
      [] site = "config" -> 66
      [] site = "validate" -> 65
      [] site = "directories" -> 73
      [] site = "history" -> 1

\* C18, mutant: the history directories are created first of all
createdBeforeAny(site) == TRUE

\* the failing steps that come after CreateDirectories (line 61)
createdBefore(site) == site = "history"

\* one of the steps of lines 24-73 fails: Fatalf(computeExitCode(c, e), ...).
\* What precedes the failing step has taken place.
RunStartFatal(site, readErr, writeErr) ==
    /\ pc \in {"init", "exited"}
    /\ runs < MaxRuns
    /\ runs' = runs + 1
    /\ instanceID' = IF site = "imds" THEN "" ELSE bootInstance
    /\ ModulesByPriority' = IF site \in {"directories", "history"}
                            THEN PrioritizeModules(Modules) ELSE << >>
    /\ disk' = IF createdBefore(site) THEN CreateDirectories(disk, bootInstance) ELSE disk
    /\ InstanceHistory' = << >>
    /\ i' = 0
    /\ wg' = 0
    /\ task' = [n \in Names |-> "none"]
    /\ aggregateFatal' = FALSE
    /\ aggFatalModuleName' = ""
    /\ historyWrites' = 0
    /\ FatalExit(SiteCode(site), site, readErr, writeErr)
    /\ UNCHANGED << bootInstance, recordedOn, unitVars >>

(***************************************************************************)
(* run, lines 78-140: the bucket loop.                                     *)
(***************************************************************************)
\* lines 78-133: the loop test holds; one goroutine per module of bucket i
BucketStart ==
    /\ pc = "loop"
    /\ i < Len(ModulesByPriority)
    /\ wg' = Len(Bucket(i))
    /\ task' = [n \in Names |->
                   IF \E j \in 1..Len(Bucket(i)) : Bucket(i)[j].Name = n
                   THEN "spawned" ELSE task[n]]
    /\ pc' = "wait"
    /\ UNCHANGED << machineVars, exitCode, exitAt, instanceID, InstanceHistory,
                    ModulesByPriority, i, aggregateFatal, aggFatalModuleName,
                    ghostVars, unitVars >>

\* line 78: the loop test fails
LoopEnd ==
    /\ pc = "loop"
    /\ ~(i < Len(ModulesByPriority))
    /\ pc' = "write"
    /\ UNCHANGED << machineVars, exitCode, exitAt, instanceID, InstanceHistory,
                    ModulesByPriority, i, wg, task, aggregateFatal,
                    aggFatalModuleName, ghostVars, unitVars >>

\* line 86 and lines 125-131: the gate
TaskGate(j) ==
    /\ pc = "wait"
    /\ j \in 1..Len(Bucket(i))
    /\ LET m == Bucket(i)[j] IN
        /\ task[m.Name] = "spawned"
        /\ IF ShouldRun(m, instanceID, InstanceHistory)
           THEN /\ task' = [task EXCEPT ![m.Name] = "do"]
                /\ UNCHANGED << ModulesByPriority, wg >>
           ELSE /\ ModulesByPriority' = [ModulesByPriority EXCEPT ![i + 1][j].Success = TRUE]
                /\ task' = [task EXCEPT ![m.Name] = "skipped"]
                /\ wg' = wg - 1
    /\ UNCHANGED << machineVars, pc, exitCode, exitAt, instanceID, InstanceHistory, i,
                    aggregateFatal, aggFatalModuleName, ghostVars, unitVars >>

\* lines 95-113 and 120-124, 131: Do returns no error
TaskDoOk(j) ==
    /\ pc = "wait"
    /\ j \in 1..Len(Bucket(i))
    /\ LET m == Bucket(i)[j] IN
        /\ task[m.Name] = "do"
        /\ ModulesByPriority' = [ModulesByPriority EXCEPT ![i + 1][j].Success = TRUE]
        /\ task' = [task EXCEPT ![m.Name] = "ok"]
    /\ wg' = wg - 1
    /\ UNCHANGED << machineVars, pc, exitCode, exitAt, instanceID, InstanceHistory, i,
                    aggregateFatal, aggFatalModuleName, ghostVars, unitVars >>

\* lines 95-117: Do returns an error; with FatalOnError line 117 sets the flag
TaskDoErr(j) ==
    /\ pc = "wait"
    /\ j \in 1..Len(Bucket(i))
    /\ LET m == Bucket(i)[j] IN
        /\ task[m.Name] = "do"
        /\ IF m.FatalOnError
           THEN /\ aggregateFatal' = TRUE
                /\ task' = [task EXCEPT ![m.Name] = "name"]
                /\ wg' = wg
           ELSE /\ aggregateFatal' = aggregateFatal
                /\ task' = [task EXCEPT ![m.Name] = "err"]
                /\ wg' = wg - 1
    /\ UNCHANGED << machineVars, pc, exitCode, exitAt, instanceID, InstanceHistory,
                    ModulesByPriority, i, aggFatalModuleName, ghostVars, unitVars >>

\* lines 118, 131
TaskSetName(j) ==
    /\ pc = "wait"
    /\ j \in 1..Len(Bucket(i))
    /\ LET m == Bucket(i)[j] IN
        /\ task[m.Name] = "name"
        /\ aggFatalModuleName' = m.Name
        /\ task' = [task EXCEPT ![m.Name] = "err"]
    /\ wg' = wg - 1
    /\ UNCHANGED << machineVars, pc, exitCode, exitAt, instanceID, InstanceHistory,
                    ModulesByPriority, i, aggregateFatal, ghostVars, unitVars >>

\* SystemConfigModule.configureSSHD, systemconfig.go line 337: log.Fatal(err)
\* when sshd_config cannot be opened.  The process ends there with status 1,
\* and every goroutine with it.
DoMayExit(m) == m.Type = "systemconfig"

TaskDoExit(j) ==
    /\ pc = "wait"
    /\ j \in 1..Len(Bucket(i))
    /\ LET m == Bucket(i)[j] IN
        /\ task[m.Name] = "do"
        /\ DoMayExit(m)
        /\ task' = [task EXCEPT ![m.Name] = "exited"]
    /\ exitCode' = 1
    /\ exitAt' = "do"
    /\ pc' = "exited"
    /\ UNCHANGED << machineVars, instanceID, InstanceHistory, ModulesByPriority,
                    i, wg, aggregateFatal, aggFatalModuleName, ghostVars, unitVars >>

\* C1, mutant: the loop goes on without waiting for the group
BucketJoinedWithoutWait == TRUE

\* line 134: wg.Wait() returns
BucketJoined == wg = 0

\* lines 134-139
BucketJoin ==
    /\ pc = "wait"
    /\ BucketJoined
    /\ IF aggregateFatal
       THEN pc' = "write" /\ i' = i
       ELSE pc' = "loop" /\ i' = i + 1
    /\ UNCHANGED << machineVars, exitCode, exitAt, instanceID, InstanceHistory,
                    ModulesByPriority, wg, task, aggregateFatal,
                    aggFatalModuleName, ghostVars, unitVars >>

(***************************************************************************)
(* run, lines 142-157.                                                     *)
(***************************************************************************)
\* lines 143-148: the history file is written
WriteHistory ==
    /\ pc = "write"
    /\ disk' = WriteHistoryFile(disk, instanceID, ModulesByPriority)
    /\ historyWrites' = historyWrites + 1
    /\ pc' = "final"
    /\ recordedOn' = recordedOn \cup {<< n, instanceID >> : n \in {x \in Names : task[x] = "ok"}}
    /\ UNCHANGED << fatalCountFile, bootInstance, runs, exitCode, exitAt, instanceID,
                    InstanceHistory, ModulesByPriority, i, wg, task,
                    aggregateFatal, aggFatalModuleName, counterReadErr, unitVars >>

\* lines 144-147: WriteHistoryFile returns an error (the final path is
\* untouched: safeWrite renames last)
WriteHistoryFails(readErr, writeErr) ==
    /\ pc = "write"
    /\ FatalExit(73, "write", readErr, writeErr)
    /\ UNCHANGED << disk, bootInstance, runs, instanceID, InstanceHistory,
                    ModulesByPriority, i, wg, task, aggregateFatal,
                    aggFatalModuleName, historyWrites, recordedOn, unitVars >>

\* lines 151-153
ExitAggregateFatal(readErr, writeErr) ==
    /\ pc = "final"
    /\ aggregateFatal
    /\ FatalExit(1, "aggregate", readErr, writeErr)
    /\ UNCHANGED << disk, bootInstance, runs, instanceID, InstanceHistory,
                    ModulesByPriority, i, wg, task, aggregateFatal,
                    aggFatalModuleName, historyWrites, recordedOn, unitVars >>

\* lines 155-157: run returns, and main with it
ExitNormal ==
    /\ pc = "final"
    /\ ~aggregateFatal
    /\ exitCode' = 0
    /\ exitAt' = "return"
    /\ pc' = "exited"
    /\ UNCHANGED << machineVars, instanceID, InstanceHistory, ModulesByPriority,
                    i, wg, task, aggregateFatal, aggFatalModuleName, ghostVars,
                    unitVars >>

\* no bucket holds more goroutines than there are modules
MaxBucketLen == Len(Modules)

Next ==
    \/ \E id \in InstanceIDs : Reboot(id)
    \/ RunStart
    \/ \E site \in StartupSites, r, w \in BOOLEAN : RunStartFatal(site, r, w)
    \/ BucketStart
    \/ LoopEnd
    \/ \E j \in 1..MaxBucketLen : TaskGate(j)
    \/ \E j \in 1..MaxBucketLen : TaskDoOk(j)
    \/ \E j \in 1..MaxBucketLen : TaskDoErr(j)
    \/ \E j \in 1..MaxBucketLen : TaskSetName(j)
    \/ \E j \in 1..MaxBucketLen : TaskDoExit(j)
    \/ BucketJoin
    \/ WriteHistory
    \/ \E r, w \in BOOLEAN : WriteHistoryFails(r, w)
    \/ \E r, w \in BOOLEAN : ExitAggregateFatal(r, w)
    \/ ExitNormal

Spec == Init /\ [][Next]_vars

(***************************************************************************)
(* SpecGate: Module.ShouldRun on bounded inputs.  The modules are one per  *)
(* run type; a history record carries the key of the module asked about,   *)
(* successful or not, or the key of another module; a list may hold        *)
(* several entries of one instance id.                                     *)
(***************************************************************************)
GateModules ==
    {MkModule("m", 2, FALSE, rt, "command") :
        rt \in {"RunOnce", "RunPerInstance", "RunPerBoot"}}

OtherModule == MkModule("o", 1, FALSE, "RunOnce", "command")

GateRecords(m) ==
    { [Key |-> generateHistoryKey(m), Success |-> TRUE],
      [Key |-> generateHistoryKey(m), Success |-> FALSE],
      [Key |-> generateHistoryKey(OtherModule), Success |-> TRUE] }

SeqsUpTo(S, n) == UNION {[1..k -> S] : k \in 0..n}

GateEntries(m) ==
    { [InstanceID |-> id, ModuleHistories |-> rs, Version |-> historyVersion] :
        id \in InstanceIDs, rs \in SeqsUpTo(GateRecords(m), MaxRec) }

GateInit ==
    /\ InitMachine
    /\ fatalCountFile = << >>
    /\ InitProcess
    /\ bootInstance = InstanceName(1)
    /\ gModule \in GateModules
    /\ gInstanceID \in InstanceIDs
    /\ gHistory \in SeqsUpTo(GateEntries(gModule), MaxHist)
    /\ gResult = << >>
    /\ InitGuardIdle /\ InitBootIdle /\ InitWriteIdle /\ InitModuleIdle
    /\ InitConfigIdle /\ InitProbeIdle /\ InitLaterIdle

\* m.ShouldRun(instanceID, history) is called (run.go line 86) and returns
CallShouldRun ==
    /\ gResult = << >>
    /\ gResult' = << ShouldRun(gModule, gInstanceID, gHistory) >>
    /\ UNCHANGED << gModule, gInstanceID, gHistory, exceptGate >>

GateNext == CallShouldRun

SpecGate == GateInit /\ [][GateNext]_vars

(***************************************************************************)
(* SpecGuard: the crash-loop guard called again and again, as by the       *)
(* Fatalf(computeExitCode(c, e), ...) of successive invocations of run;    *)
(* a reboot clears /tmp.  The counter file may be unreadable when it       *)
(* exists, and IncrementFatalCount may fail to save it.                    *)
(***************************************************************************)
GuardInit ==
    /\ InitMachine
    /\ fatalCountFile = << >>
    /\ InitProcess
    /\ bootInstance = InstanceName(1)
    /\ InitUnitsIdle

\* computeExitCode(c, e) is called and returns
CallComputeExitCode(e, readErr, writeErr) ==
    /\ guardCalls < MaxCalls
    /\ readErr => fatalCountFile # << >>
    /\ guardCalls' = guardCalls + 1
    /\ guardClean' = (guardClean /\ ~readErr /\ ~writeErr)
    /\ guardReq' = e
    /\ guardRet' = computeExitCode(e, fatalCountFile, readErr)
    /\ fatalCountFile' = fatalCountAfter(fatalCountFile, readErr, writeErr)
    /\ UNCHANGED exceptGuard

\* the machine reboots: the counter file is gone
GuardReboot ==
    /\ guardCalls > 0
    /\ fatalCountFile' = << >>
    /\ guardCalls' = 0
    /\ guardClean' = TRUE
    /\ guardReq' = 0
    /\ guardRet' = 0
    /\ UNCHANGED exceptGuard

GuardNext ==
    \/ \E e \in StartupCodes, r, w \in BOOLEAN : CallComputeExitCode(e, r, w)
    \/ GuardReboot

SpecGuard == GuardInit /\ [][GuardNext]_vars

(***************************************************************************)
(* SpecBoot: launchd (KeepAlive) starts run again whenever it has ended    *)
(* with a nonzero status; here every invocation is one step, told by the   *)
(* way it ends: a Fatalf(computeExitCode(c, e), ...) of run, the log.Fatal *)
(* inside SystemConfigModule.configureSSHD, or the return of run.          *)
(***************************************************************************)
BootInit ==
    /\ InitMachine
    /\ fatalCountFile = << >>
    /\ InitProcess
    /\ bootInstance = InstanceName(1)
    /\ InitUnitsIdle

\* run ends at one of its Fatalf(computeExitCode(c, e), ...)
BootRunFatal(e, readErr, writeErr) ==
    /\ bootRuns < MaxBootRuns
    /\ readErr => fatalCountFile # << >>
    /\ bootRuns' = bootRuns + 1
    /\ bootClean' = (bootClean /\ ~readErr /\ ~writeErr)
    /\ nonzeroExits' = IF computeExitCode(e, fatalCountFile, readErr) # 0
                       THEN nonzeroExits + 1 ELSE nonzeroExits
    /\ fatalCountFile' = fatalCountAfter(fatalCountFile, readErr, writeErr)
    /\ UNCHANGED exceptBoot

\* run ends inside the Do of a module: log.Fatal, exit status 1
BootRunModuleExit ==
    /\ bootRuns < MaxBootRuns
    /\ \E k \in 1..Len(Modules) : DoMayExit(Modules[k])
    /\ bootRuns' = bootRuns + 1
    /\ nonzeroExits' = nonzeroExits + 1
    /\ UNCHANGED << fatalCountFile, bootClean, exceptBoot >>

\* run returns: exit status 0
BootRunReturns ==
    /\ bootRuns < MaxBootRuns
    /\ bootRuns' = bootRuns + 1
    /\ UNCHANGED << fatalCountFile, bootClean, nonzeroExits, exceptBoot >>

\* the machine reboots: the counter file is gone
BootReboot ==
    /\ bootRuns > 0
    /\ fatalCountFile' = << >>
    /\ bootRuns' = 0
    /\ bootClean' = TRUE
    /\ nonzeroExits' = 0
    /\ UNCHANGED exceptBoot

BootNext ==
    \/ \E e \in StartupCodes, r, w \in BOOLEAN : BootRunFatal(e, r, w)
    \/ BootRunModuleExit
    \/ BootRunReturns
    \/ BootReboot

SpecBoot == BootInit /\ [][BootNext]_vars

(***************************************************************************)
(* SpecWrite: safeWrite(path, data) step by step, in a directory that      *)
(* holds the final path, with or without earlier contents.  f.Write puts   *)
(* the bytes into the file one after the other; the process may crash      *)
(* between any two steps, and every step that can return an error may.     *)
(***************************************************************************)
Bytes == {0, 1}
Contents == UNION {[1..n -> Bytes] : n \in 1..MaxBytes}

\* the path WriteHistoryFile hands to safeWrite, within the instance directory
historyFile == "history.json"

\* C14, mutant: the file is created at the final path itself
CreateTempInPlace(path) == path

\* os.CreateTemp(filepath.Dir(path), "." + filepath.Base(path) + ".*"): a new
\* name in the same directory
CreateTempName(path) == "." \o path \o ".tmp"

\* C30, mutant: the deferred os.Remove is missing
RemoveNothing(fs, name) == fs

\* os.Remove(name)
Remove(fs, name) == [fs EXCEPT ![name] = << >>]

WriteInit ==
    /\ InitMachine
    /\ fatalCountFile = << >>
    /\ InitProcess
    /\ bootInstance = InstanceName(1)
    /\ InitGateIdle /\ InitGuardIdle /\ InitBootIdle
    /\ InitModuleIdle /\ InitConfigIdle /\ InitProbeIdle /\ InitLaterIdle
    /\ swData \in Contents
    /\ swPrior \in {<< >>} \cup {<< c >> : c \in Contents}
    /\ swFs = [n \in {historyFile, CreateTempName(historyFile)} |->
                   IF n = historyFile THEN swPrior ELSE << >>]
    /\ swPc = "call"
    /\ swName = ""
    /\ swRenamed = FALSE

\* line 143: the temporary file exists, empty
SwCreateTemp ==
    /\ swPc = "call"
    /\ swName' = CreateTempName(historyFile)
    /\ swFs' = [swFs EXCEPT ![swName'] = << << >> >>]
    /\ swPc' = "created"
    /\ UNCHANGED << swData, swPrior, swRenamed, exceptWrite >>

\* lines 144-146
SwCreateTempFails ==
    /\ swPc = "call"
    /\ swPc' = "returned"
    /\ UNCHANGED << swFs, swData, swName, swPrior, swRenamed, exceptWrite >>

\* line 150, in progress: one more byte is in the file
SwWriteByte ==
    /\ swPc = "created"
    /\ Len(swFs[swName][1]) < Len(swData)
    /\ swFs' = [swFs EXCEPT ![swName] =
                   << Append(@[1], swData[Len(@[1]) + 1]) >>]
    /\ UNCHANGED << swPc, swData, swName, swPrior, swRenamed, exceptWrite >>

\* line 150: f.Write returns nil
SwWriteReturns ==
    /\ swPc = "created"
    /\ Len(swFs[swName][1]) = Len(swData)
    /\ swPc' = "written"
    /\ UNCHANGED << swFs, swData, swName, swPrior, swRenamed, exceptWrite >>

\* lines 151-153 and the deferred f.Close, os.Remove
SwWriteFails ==
    /\ swPc = "created"
    /\ swFs' = Remove(swFs, swName)
    /\ swPc' = "returned"
    /\ UNCHANGED << swData, swName, swPrior, swRenamed, exceptWrite >>

\* line 155
SwSync ==
    /\ swPc = "written"
    /\ swPc' = "synced"
    /\ UNCHANGED << swFs, swData, swName, swPrior, swRenamed, exceptWrite >>

\* lines 156-158 and the deferred f.Close, os.Remove
SwSyncFails ==
    /\ swPc = "written"
    /\ swFs' = Remove(swFs, swName)
    /\ swPc' = "returned"
    /\ UNCHANGED << swData, swName, swPrior, swRenamed, exceptWrite >>

\* line 160: os.Rename replaces path by the temporary file in one step
SwRename ==
    /\ swPc = "synced"
    /\ swFs' = IF swName = historyFile THEN swFs
               ELSE [swFs EXCEPT ![historyFile] = swFs[swName], ![swName] = << >>]
    /\ swRenamed' = TRUE
    /\ swPc' = "renamed"
    /\ UNCHANGED << swData, swName, swPrior, exceptWrite >>

\* line 160: os.Rename fails; the deferred f.Close, os.Remove
SwRenameFails ==
    /\ swPc = "synced"
    /\ swFs' = Remove(swFs, swName)
    /\ swPc' = "returned"
    /\ UNCHANGED << swData, swName, swPrior, swRenamed, exceptWrite >>

\* lines 147-148 after the rename: f.Close, os.Remove(f.Name()) of a name
\* that is gone
SwDeferred ==
    /\ swPc = "renamed"
    /\ swFs' = IF swName = historyFile THEN swFs ELSE Remove(swFs, swName)
    /\ swPc' = "returned"
    /\ UNCHANGED << swData, swName, swPrior, swRenamed, exceptWrite >>

\* the process dies; the directory stays as it is
SwCrash ==
    /\ swPc \in {"call", "created", "written", "synced", "renamed"}
    /\ swPc' = "crashed"
    /\ UNCHANGED << swFs, swData, swName, swPrior, swRenamed, exceptWrite >>

WriteNext ==
    \/ SwCreateTemp
    \/ SwCreateTempFails
    \/ SwWriteByte
    \/ SwWriteReturns
    \/ SwWriteFails
    \/ SwSync
    \/ SwSyncFails
    \/ SwRename
    \/ SwRenameFails
    \/ SwDeferred
    \/ SwCrash

SpecWrite == WriteInit /\ [][WriteNext]_vars

(***************************************************************************)
(* Configuration validation.  A declaration is a Module as toml.Decode     *)
(* leaves it: the common fields, and for every sub-configuration whether   *)
(* it differs from the empty struct (what cmp.Equal is asked).             *)
(***************************************************************************)
RunTypeFlags == {"RunOnce", "RunPerBoot", "RunPerInstance"}

\* the sub-configurations, in the order identifyModule looks at them, with
\* their type tags
SubConfigs ==
    << [field |-> "CommandModule",      tag |-> "command"],
       [field |-> "SSHKeysModule",      tag |-> "sshkeys"],
       [field |-> "UserDataModule",     tag |-> "userdata"],
       [field |-> "NetworkCheckModule", tag |-> "networkcheck"] >>

Declaration(name, prio, once, boot, inst, cmd, ssh, ud, nc) ==
    [Name |-> name, PriorityGroup |-> prio, Type |-> "",
     RunOnce |-> once, RunPerBoot |-> boot, RunPerInstance |-> inst,
     CommandModule |-> cmd, SSHKeysModule |-> ssh,
     UserDataModule |-> ud, NetworkCheckModule |-> nc]

\* C15, mutant: only a negative priority is refused
validateModuleNegativeOnly(m) ==
    LET runCount == (IF m.RunOnce THEN 1 ELSE 0) + (IF m.RunPerBoot THEN 1 ELSE 0)
                    + (IF m.RunPerInstance THEN 1 ELSE 0)
    IN  IF runCount # 1 THEN TRUE
        ELSE IF m.PriorityGroup < 0 THEN TRUE
        ELSE FALSE

\* Module.validateModule: TRUE when an error is returned
validateModule(m) ==
    LET runCount == (IF m.RunOnce THEN 1 ELSE 0) + (IF m.RunPerBoot THEN 1 ELSE 0)
                    + (IF m.RunPerInstance THEN 1 ELSE 0)
    IN  IF runCount # 1 THEN TRUE
        ELSE IF m.PriorityGroup < 1 THEN TRUE
        ELSE FALSE

\* Module.identifyModule: the first sub-configuration that is not the empty
\* struct gives the type; err when there is none
RECURSIVE identifyFrom(_, _)
identifyFrom(m, k) ==
    IF k > Len(SubConfigs) THEN [err |-> TRUE, Type |-> m.Type]
    ELSE IF m[SubConfigs[k].field] THEN [err |-> FALSE, Type |-> SubConfigs[k].tag]
    ELSE identifyFrom(m, k + 1)

identifyModule(m) == identifyFrom(m, 1)

\* C16, mutant: the key set remembers the last name only
addKeyLastOnly(keySet, name) == {name}

\* line 65: keySet[c.Modules[i].Name] = struct{}{}
addKey(keySet, name) == keySet \cup {name}

\* InitConfig.ValidateAndIdentify: the loop from module k on.  err is "" for
\* nil; Modules is c.Modules as the call leaves it (types are set in place)
RECURSIVE validateAndIdentifyFrom(_, _, _)
validateAndIdentifyFrom(modules, k, keySet) ==
    IF k > Len(modules) THEN [err |-> "", Modules |-> modules]
    ELSE LET id == identifyModule(modules[k])
             typed == [modules EXCEPT ![k].Type = id.Type]
         IN  IF id.err THEN [err |-> "identify", Modules |-> modules]
             ELSE IF validateModule(typed[k]) THEN [err |-> "validate", Modules |-> typed]
             ELSE IF typed[k].Name \in keySet THEN [err |-> "duplicate", Modules |-> typed]
             ELSE validateAndIdentifyFrom(typed, k + 1, addKey(keySet, typed[k].Name))

ValidateAndIdentify(modules) == validateAndIdentifyFrom(modules, 1, {})

(***************************************************************************)
(* SpecModule: validateModule and identifyModule applied to one            *)
(* declaration, with every combination of run-type flags, priorities from  *)
(* -1 on and every combination of sub-configurations.                      *)
(***************************************************************************)
Priorities == (0 - 1)..MaxPriority

ModuleDeclarations ==
    { Declaration("m", prio, once, boot, inst, cmd, ssh, ud, nc) :
        prio \in Priorities, once \in BOOLEAN, boot \in BOOLEAN, inst \in BOOLEAN,
        cmd \in BOOLEAN, ssh \in BOOLEAN, ud \in BOOLEAN, nc \in BOOLEAN }

ModuleInit ==
    /\ InitMachine
    /\ fatalCountFile = << >>
    /\ InitProcess
    /\ bootInstance = InstanceName(1)
    /\ InitGateIdle /\ InitGuardIdle /\ InitBootIdle /\ InitWriteIdle
    /\ InitConfigIdle /\ InitProbeIdle /\ InitLaterIdle
    /\ cModule \in ModuleDeclarations
    /\ cValidate = << >>
    /\ cIdentify = << >>

\* m.validateModule() is called and returns
CallValidateModule ==
    /\ cValidate = << >>
    /\ cValidate' = << validateModule(cModule) >>
    /\ UNCHANGED << cModule, cIdentify, exceptModule >>

\* m.identifyModule() is called and returns; m.Type is set
CallIdentifyModule ==
    /\ cIdentify = << >>
    /\ cIdentify' = << identifyModule(cModule) >>
    /\ cModule' = [cModule EXCEPT !.Type = identifyModule(cModule).Type]
    /\ UNCHANGED << cValidate, exceptModule >>

ModuleNext == CallValidateModule \/ CallIdentifyModule

SpecModule == ModuleInit /\ [][ModuleNext]_vars

(***************************************************************************)
(* SpecConfig: ValidateAndIdentify applied to configurations of up to      *)
(* MaxPlan modules; a module has one of two names, a run type or none, a   *)
(* priority or none, a Command sub-configuration or none.                  *)
(***************************************************************************)
ConfigDeclarations ==
    { Declaration(name, prio, once, FALSE, FALSE, cmd, FALSE, FALSE, FALSE) :
        name \in {"a", "b"}, prio \in {0, 1}, once \in BOOLEAN, cmd \in BOOLEAN }

ConfigInit ==
    /\ InitMachine
    /\ fatalCountFile = << >>
    /\ InitProcess
    /\ bootInstance = InstanceName(1)
    /\ InitGateIdle /\ InitGuardIdle /\ InitBootIdle /\ InitWriteIdle
    /\ InitModuleIdle /\ InitProbeIdle /\ InitLaterIdle
    /\ cModules \in SeqsUpTo(ConfigDeclarations, MaxPlan)
    /\ cResult = << >>

\* c.ValidateAndIdentify() is called and returns
CallValidateAndIdentify ==
    /\ cResult = << >>
    /\ cResult' = << ValidateAndIdentify(cModules) >>
    /\ UNCHANGED << cModules, exceptConfig >>

ConfigNext == CallValidateAndIdentify

SpecConfig == ConfigInit /\ [][ConfigNext]_vars

(***************************************************************************)
(* SpecProbe: one call of SetupInstanceID.  Every call of                  *)
(* c.IMDS.UpdateInstanceID either returns an error and leaves InstanceID   *)
(* empty, or sets InstanceID and returns nil.                              *)
(***************************************************************************)
ProbeInit ==
    /\ InitMachine
    /\ fatalCountFile = << >>
    /\ InitProcess
    /\ bootInstance = InstanceName(1)
    /\ InitGateIdle /\ InitGuardIdle /\ InitBootIdle /\ InitWriteIdle
    /\ InitModuleIdle /\ InitConfigIdle
    /\ InitProbeIdle /\ InitLaterIdle

\* lines 23-41: one iteration in which UpdateInstanceID returns an error
ProbeUpdateFails ==
    /\ probePc = "loop"
    /\ probeInstanceID = ""
    /\ probeCalls' = probeCalls + 1
    /\ IF attempt > setupMaxAttempts
       THEN /\ probePc' = "returned"
            /\ probeErr' = TRUE
            /\ attempt' = attempt
       ELSE /\ attempt' = attempt + 1
            /\ UNCHANGED << probePc, probeErr >>
    /\ UNCHANGED << probeInstanceID, exceptProbe >>

\* lines 23-26, 44: UpdateInstanceID sets the instance id; the loop ends and
\* nil is returned
ProbeUpdateOk(id) ==
    /\ probePc = "loop"
    /\ probeInstanceID = ""
    /\ probeCalls' = probeCalls + 1
    /\ probeInstanceID' = id
    /\ probePc' = "returned"
    /\ probeErr' = FALSE
    /\ UNCHANGED << attempt, exceptProbe >>

ProbeNext ==
    \/ ProbeUpdateFails
    \/ \E id \in InstanceIDs : ProbeUpdateOk(id)

SpecProbe == ProbeInit /\ [][ProbeNext]_vars

(***************************************************************************)
(* SpecPrioritize: InitConfig.PrioritizeModules step by step on the Go     *)
(* slice c.ModulesByPriority, then the loop of run over its buckets.  A    *)
(* slice is its backing array (arr, whose length is the capacity) and its  *)
(* length (len); the elements of arr beyond len are the zero value.        *)
(***************************************************************************)
\* the capacity append gives a full slice of small capacity
growCap(c) == IF c = 0 THEN 1 ELSE 2 * c

\* append(c.ModulesByPriority, []Module{})
appendBucket(s) ==
    IF s.len < Len(s.arr)
    THEN [arr |-> [s.arr EXCEPT ![s.len + 1] = << >>], len |-> s.len + 1]
    ELSE [arr |-> s.arr \o [z \in 1..(growCap(Len(s.arr)) - Len(s.arr)) |-> << >>],
          len |-> s.len + 1]

\* C21, mutant: the slice is never extended to the module's priority
resliceNever(s, p) == s

\* c.ModulesByPriority[:m.PriorityGroup], when the slice is shorter
reslice(s, p) == IF p > s.len THEN [s EXCEPT !.len = p] ELSE s

\* the module is appended to bucket PriorityGroup-1
placeModule(s, m) ==
    LET r == reslice(s, m.PriorityGroup)
    IN  [r EXCEPT !.arr[m.PriorityGroup] = Append(@, m)]

\* what len and indexing show of a slice
visible(s) == SubSeq(s.arr, 1, s.len)

\* validated configurations: PriorityGroup >= 1, the names distinct
PlanPriorities == UNION {[1..n -> 1..MaxGroup] : n \in 0..MaxPlan}
PlanOf(prios) ==
    [k \in 1..Len(prios) |->
        MkModule("m" \o ToString(k), prios[k], FALSE, "RunPerBoot", "command")]

PrioritizeInit ==
    /\ InitMachine
    /\ fatalCountFile = << >>
    /\ InitProcess
    /\ bootInstance = InstanceName(1)
    /\ InitEarlyIdle /\ InitKeyIdle /\ InitCleanIdle /\ InitSentinelIdle
    /\ InitLastIdle
    /\ \E prios \in PlanPriorities : pmModules = PlanOf(prios)
    /\ pmPc = "range"
    /\ pmK = 1
    /\ pmSlice = [arr |-> << >>, len |-> 0]
    /\ pmI = 0
    /\ pmVisited = << >>

\* part_007 lines 78-80: one iteration of the loop on cap
PmGrow ==
    /\ pmPc = "range"
    /\ pmK <= Len(pmModules)
    /\ pmModules[pmK].PriorityGroup > Len(pmSlice.arr)
    /\ pmSlice' = appendBucket(pmSlice)
    /\ UNCHANGED << pmModules, pmPc, pmK, pmI, pmVisited, exceptPrioritize >>

\* part_007 lines 82-86: the capacity suffices, the module is placed
PmPlace ==
    /\ pmPc = "range"
    /\ pmK <= Len(pmModules)
    /\ pmModules[pmK].PriorityGroup <= Len(pmSlice.arr)
    /\ pmSlice' = placeModule(pmSlice, pmModules[pmK])
    /\ pmK' = pmK + 1
    /\ UNCHANGED << pmModules, pmPc, pmI, pmVisited, exceptPrioritize >>

\* part_007 line 89
PmReturn ==
    /\ pmPc = "range"
    /\ pmK > Len(pmModules)
    /\ pmPc' = "returned"
    /\ UNCHANGED << pmModules, pmK, pmSlice, pmI, pmVisited, exceptPrioritize >>

\* run.go lines 78-134: one iteration of the loop over the buckets, which
\* starts one task for each module of the bucket and waits for them
PmVisit ==
    /\ pmPc = "returned"
    /\ pmI < pmSlice.len
    /\ pmVisited' = Append(pmVisited, Len(pmSlice.arr[pmI + 1]))
    /\ pmI' = pmI + 1
    /\ UNCHANGED << pmModules, pmPc, pmK, pmSlice, exceptPrioritize >>

\* run.go line 78: the loop ends
PmLoopEnd ==
    /\ pmPc = "returned"
    /\ pmI >= pmSlice.len
    /\ pmPc' = "done"
    /\ UNCHANGED << pmModules, pmK, pmSlice, pmI, pmVisited, exceptPrioritize >>

PrioritizeNext ==
    \/ PmGrow
    \/ PmPlace
    \/ PmReturn
    \/ PmVisit
    \/ PmLoopEnd

SpecPrioritize == PrioritizeInit /\ [][PrioritizeNext]_vars

(***************************************************************************)
(* SpecKey: generateHistoryKey called on one module.  The priority is a    *)
(* validated one (>= 1; 11 has two digits), the module has one run type,   *)
(* the type tag is one the switch of run dispatches on, and the name is    *)
(* any string: the names below hold "_" and the other fields of a key.     *)
(***************************************************************************)
KeyPriorities == (1..MaxPriority) \cup {10 + 1}
KeyRunTypes == {"RunOnce", "RunPerBoot", "RunPerInstance"}
TypeTags == {"command", "motd", "sshkeys", "userdata", "networkcheck",
             "systemconfig", "usermanagement"}
KeyNames == {"", "_", "x", "command_x", "RunOnce_command_x", "1_RunOnce_command_x"}
KeyModules ==
    {MkModule(n, p, FALSE, r, t) :
        n \in KeyNames, p \in KeyPriorities, r \in KeyRunTypes, t \in TypeTags}

KeyInit ==
    /\ InitMachine
    /\ fatalCountFile = << >>
    /\ InitProcess
    /\ bootInstance = InstanceName(1)
    /\ InitEarlyIdle /\ InitPrioritizeIdle /\ InitCleanIdle /\ InitSentinelIdle
    /\ InitLastIdle
    /\ kModule \in KeyModules
    /\ kKey = << >>

\* m.generateHistoryKey() is called and returns
CallGenerateHistoryKey ==
    /\ kKey = << >>
    /\ kKey' = << generateHistoryKey(kModule) >>
    /\ UNCHANGED << kModule, exceptKey >>

KeyNext == CallGenerateHistoryKey

SpecKey == KeyInit /\ [][KeyNext]_vars

(***************************************************************************)
(* SpecClean: the command `clean`, with or without -all, on a history      *)
(* directory left by earlier runs, and then the first steps of the next    *)
(* run: CreateDirectories, GetInstanceHistory and the gate of every module *)
(* of the plan.  A history file holds a History or is not valid JSON.      *)
(***************************************************************************)
Malformed == [json |-> FALSE]

\* the modules earlier runs may have recorded as succeeded
CleanSuccessSets == SUBSET {"cmd", "once", "sys"}
RanWith(succeeded) ==
    [k \in 1..Len(Modules) |->
        [Modules[k] EXCEPT !.Success = (Modules[k].Name \in succeeded)]]
\* what the subdirectory of an instance may hold
CleanEntries(id) ==
    {NoHistory, [dir |-> TRUE, file |-> << >>], [dir |-> TRUE, file |-> << Malformed >>]}
    \cup {[dir |-> TRUE,
           file |-> << HistoryOf(id, PrioritizeModules(RanWith(succeeded))) >>] :
            succeeded \in CleanSuccessSets}
CleanDisks == {d \in [InstanceIDs -> UNION {CleanEntries(id) : id \in InstanceIDs}] :
                \A id \in InstanceIDs : d[id] \in CleanEntries(id)}

\* readHistoryFile returns an error for some history file
historyUnreadable(d) ==
    \E id \in InstanceIDs : d[id].dir /\ d[id].file = << Malformed >>

\* os.RemoveAll returned an error: the file may be gone and the directory
\* left
partlyRemoved(e) == {e, [dir |-> e.dir, file |-> << >>]}

\* C24, mutant: -all removes the history of the current instance only
removeAllOfCurrent(d, id) == [d EXCEPT ![id] = NoHistory]

\* the loop of `clean -all` over the entries of the history directory
removeAll(d, id) == [x \in InstanceIDs |-> NoHistory]

\* C23, mutant: the directory is removed whatever the instance id
removeFirstInstance(d, id) == [d EXCEPT ![InstanceName(1)] = NoHistory]

\* os.RemoveAll(path.Join(historyPath, c.IMDS.InstanceID))
removeCurrent(d, id) == [d EXCEPT ![id] = NoHistory]

CleanInit ==
    /\ InitMachine
    /\ fatalCountFile = << >>
    /\ InitProcess
    /\ bootInstance = InstanceName(1)
    /\ InitEarlyIdle /\ InitPrioritizeIdle /\ InitKeyIdle /\ InitSentinelIdle
    /\ InitLastIdle
    /\ clDisk \in CleanDisks
    /\ clBoot \in InstanceIDs
    /\ clPrior = clDisk
    /\ clCmd = "none"
    /\ clExit = 0
    /\ clPc = "idle"
    /\ clInstanceHistory = << >>
    /\ clReadErr = FALSE
    /\ clGate = << >>

\* part_008 lines 204-218: `clean`
CleanCurrent ==
    /\ clPc = "idle"
    /\ clDisk' = removeCurrent(clDisk, clBoot)
    /\ clCmd' = "clean"
    /\ clExit' = 0
    /\ clPc' = "cleaned"
    /\ UNCHANGED << clBoot, clPrior, clInstanceHistory, clReadErr, clGate, exceptClean >>

\* part_008 lines 207-210: SetupInstanceID returns an error
CleanCurrentNoInstanceID ==
    /\ clPc = "idle"
    /\ clCmd' = "clean"
    /\ clExit' = 75
    /\ clPc' = "cleaned"
    /\ UNCHANGED << clDisk, clBoot, clPrior, clInstanceHistory, clReadErr, clGate,
                    exceptClean >>

\* part_008 lines 214-217: os.RemoveAll returns an error
CleanCurrentRemoveFails ==
    /\ clPc = "idle"
    /\ \E e \in partlyRemoved(clDisk[clBoot]) : clDisk' = [clDisk EXCEPT ![clBoot] = e]
    /\ clCmd' = "clean"
    /\ clExit' = 1
    /\ clPc' = "cleaned"
    /\ UNCHANGED << clBoot, clPrior, clInstanceHistory, clReadErr, clGate, exceptClean >>

\* part_008 lines 190-203: `clean -all`
CleanAll ==
    /\ clPc = "idle"
    /\ clDisk' = removeAll(clDisk, clBoot)
    /\ clCmd' = "clean -all"
    /\ clExit' = 0
    /\ clPc' = "cleaned"
    /\ UNCHANGED << clBoot, clPrior, clInstanceHistory, clReadErr, clGate, exceptClean >>

\* part_008 lines 193-196: ioutil.ReadDir returns an error
CleanAllReadDirFails ==
    /\ clPc = "idle"
    /\ clCmd' = "clean -all"
    /\ clExit' = 66
    /\ clPc' = "cleaned"
    /\ UNCHANGED << clDisk, clBoot, clPrior, clInstanceHistory, clReadErr, clGate,
                    exceptClean >>

\* part_008 lines 197-203: os.RemoveAll returns an error at entry k of the
\* directory listing; the entries before it are removed
CleanAllRemoveFails(k) ==
    /\ clPc = "idle"
    /\ clDisk[InstanceName(k)].dir
    /\ \E e \in partlyRemoved(clDisk[InstanceName(k)]) :
        clDisk' = [x \in InstanceIDs |->
                    IF \E l \in 1..(k - 1) : x = InstanceName(l) THEN NoHistory
                    ELSE IF x = InstanceName(k) THEN e
                    ELSE clDisk[x]]
    /\ clCmd' = "clean -all"
    /\ clExit' = 1
    /\ clPc' = "cleaned"
    /\ UNCHANGED << clBoot, clPrior, clInstanceHistory, clReadErr, clGate, exceptClean >>

\* run.go: the next run creates the directory of the instance and reads the
\* history
CleanRunReads ==
    /\ clPc \in {"idle", "cleaned"}
    /\ clDisk' = CreateDirectories(clDisk, clBoot)
    /\ clReadErr' = historyUnreadable(clDisk')
    /\ clInstanceHistory' = IF clReadErr' THEN << >> ELSE GetInstanceHistory(clDisk')
    /\ clPc' = "read"
    /\ UNCHANGED << clBoot, clPrior, clCmd, clExit, clGate, exceptClean >>

\* run.go line 86: the gate of each module of the plan
CleanRunGates ==
    /\ clPc = "read"
    /\ ~clReadErr
    /\ clGate' = [n \in Names |-> ShouldRun(ModuleNamed(n), clBoot, clInstanceHistory)]
    /\ clPc' = "gated"
    /\ UNCHANGED << clDisk, clBoot, clPrior, clCmd, clExit, clInstanceHistory,
                    clReadErr, exceptClean >>

CleanNext ==
    \/ CleanCurrent
    \/ CleanCurrentNoInstanceID
    \/ CleanCurrentRemoveFails
    \/ CleanAll
    \/ CleanAllReadDirFails
    \/ \E k \in 1..MaxInstances : CleanAllRemoveFails(k)
    \/ CleanRunReads
    \/ CleanRunGates

SpecClean == CleanInit /\ [][CleanNext]_vars

(***************************************************************************)
(* SpecSentinel: the goroutines of one bucket whose modules all pass the   *)
(* gate, and run after wg.Wait().  aggregateFatal and aggFatalModuleName   *)
(* are plain variables captured by the goroutines: nothing orders the      *)
(* writes of two goroutines.  A string value is two words, the pointer to  *)
(* its bytes (data) and its length (len), stored one after the other, so   *)
(* that concurrent assignments may leave the pointer of one string with    *)
(* the length of another.  Module k of the bucket has a name of k bytes.   *)
(***************************************************************************)
Tasks == 1..MaxTasks

RECURSIVE SentinelName(_)
SentinelName(k) == IF k = 1 THEN "m" ELSE SentinelName(k - 1) \o ToString(k)

\* the string value of m.Name
StringOf(k) == [data |-> SentinelName(k), len |-> k]

SentinelInit ==
    /\ InitMachine
    /\ fatalCountFile = << >>
    /\ InitProcess
    /\ bootInstance = InstanceName(1)
    /\ InitEarlyIdle /\ InitPrioritizeIdle /\ InitKeyIdle /\ InitCleanIdle
    /\ InitLastIdle
    /\ snFatal \in [Tasks -> BOOLEAN]
    /\ snTask = [k \in Tasks |-> "do"]
    /\ snWg = MaxTasks
    /\ snFlag = FALSE
    /\ snName = [data |-> "", len |-> 0]
    /\ snPc = "wait"
    /\ snReported = [data |-> "", len |-> 0]

\* run.go lines 120-124, 131: Do returns without error
SnDoOk(k) ==
    /\ snTask[k] = "do"
    /\ snTask' = [snTask EXCEPT ![k] = "ok"]
    /\ snWg' = snWg - 1
    /\ UNCHANGED << snFatal, snFlag, snName, snPc, snReported, exceptSentinel >>

\* run.go lines 114-116, 131: Do returns an error
SnDoErr(k) ==
    /\ snTask[k] = "do"
    /\ IF snFatal[k]
       THEN /\ snTask' = [snTask EXCEPT ![k] = "flag"]
            /\ snWg' = snWg
       ELSE /\ snTask' = [snTask EXCEPT ![k] = "err"]
            /\ snWg' = snWg - 1
    /\ UNCHANGED << snFatal, snFlag, snName, snPc, snReported, exceptSentinel >>

\* run.go line 117: aggregateFatal = true
SnSetFlag(k) ==
    /\ snTask[k] = "flag"
    /\ snFlag' = TRUE
    /\ snTask' = [snTask EXCEPT ![k] = "name"]
    /\ UNCHANGED << snFatal, snWg, snName, snPc, snReported, exceptSentinel >>

\* run.go line 118: aggFatalModuleName = m.Name, the store of the pointer
SnSetNameData(k) ==
    /\ snTask[k] = "name"
    /\ snName' = [snName EXCEPT !.data = StringOf(k).data]
    /\ snTask' = [snTask EXCEPT ![k] = "len"]
    /\ UNCHANGED << snFatal, snWg, snFlag, snPc, snReported, exceptSentinel >>

\* run.go lines 118, 131: the store of the length, then wg.Done()
SnSetNameLen(k) ==
    /\ snTask[k] = "len"
    /\ snName' = [snName EXCEPT !.len = StringOf(k).len]
    /\ snTask' = [snTask EXCEPT ![k] = "err"]
    /\ snWg' = snWg - 1
    /\ UNCHANGED << snFatal, snFlag, snPc, snReported, exceptSentinel >>

\* run.go line 134: wg.Wait() returns
SnJoin ==
    /\ snPc = "wait"
    /\ snWg = 0
    /\ snPc' = "joined"
    /\ UNCHANGED << snFatal, snTask, snWg, snFlag, snName, snReported, exceptSentinel >>

\* run.go lines 137-153: aggregateFatal is read, the loop is left, and after
\* the history write the run ends with the message naming aggFatalModuleName
SnAggregateFatal ==
    /\ snPc = "joined"
    /\ snFlag
    /\ snReported' = snName
    /\ snPc' = "fatal"
    /\ UNCHANGED << snFatal, snTask, snWg, snFlag, snName, exceptSentinel >>

\* run.go lines 137-157: aggregateFatal is false
SnReturn ==
    /\ snPc = "joined"
    /\ ~snFlag
    /\ snPc' = "returned"
    /\ UNCHANGED << snFatal, snTask, snWg, snFlag, snName, snReported, exceptSentinel >>

SentinelNext ==
    \/ \E k \in Tasks : SnDoOk(k)
    \/ \E k \in Tasks : SnDoErr(k)
    \/ \E k \in Tasks : SnSetFlag(k)
    \/ \E k \in Tasks : SnSetNameData(k)
    \/ \E k \in Tasks : SnSetNameLen(k)
    \/ SnJoin
    \/ SnAggregateFatal
    \/ SnReturn

SpecSentinel == SentinelInit /\ [][SentinelNext]_vars

(***************************************************************************)
(* SpecRead: GetInstanceHistory on a history directory whose entries are   *)
(* absent, plain files or subdirectories, and what run does next.  The     *)
(* history file of a subdirectory (hf) is                                  *)
(*   "none"        not there                                               *)
(*   "nostat"      os.Stat returns an error                                *)
(*   "irregular"   not a regular file                                      *)
(*   "empty"       a regular file of size 0                                *)
(*   "unreadable"  a regular file that ioutil.ReadFile cannot read         *)
(*   "malformed"   a regular file that json.Unmarshal rejects              *)
(*   "valid"       a regular file holding the History h[1]                 *)
(***************************************************************************)
ReadSuccessSets == {{}, {"cmd"}}
ReadHistories ==
    {HistoryOf(id, PrioritizeModules(RanWith(succeeded))) :
        id \in InstanceIDs, succeeded \in ReadSuccessSets}
ReadEntries ==
    {[kind |-> k, hf |-> "none", h |-> << >>] : k \in {"absent", "file"}}
    \cup {[kind |-> "dir", hf |-> f, h |-> << >>] :
            f \in {"none", "nostat", "irregular", "empty", "unreadable", "malformed"}}
    \cup {[kind |-> "dir", hf |-> "valid", h |-> << c >>] : c \in ReadHistories}

\* C31, mutant: the check of info.Size() is missing, an empty file is decoded
skippedButEmpty(e) == e.kind # "dir" \/ e.hf \in {"none", "nostat", "irregular"}

\* lines 56-67: the entry is not a directory, os.Stat fails, or the file is
\* not regular or empty
skipped(e) == e.kind # "dir" \/ e.hf \in {"none", "nostat", "irregular", "empty"}

\* C32, mutant: the decoding error is returned as any other error
readHistoryFilePlain(e) ==
    IF e.hf = "valid" THEN "none" ELSE "io"

\* readHistoryFile: the kind of the error returned
readHistoryFile(e) ==
    IF e.hf = "unreadable" THEN "io"
    ELSE IF e.hf = "valid" THEN "none"
    ELSE "malformed"

\* the loop of GetInstanceHistory over the entries sorted by name; the error
\* of readHistoryFile is wrapped with %w and keeps its kind
RECURSIVE getHistoryFrom(_, _, _)
getHistoryFrom(d, k, acc) ==
    IF k > MaxInstances THEN [err |-> "none", history |-> acc]
    ELSE LET e == d[InstanceName(k)]
         IN  IF skipped(e) THEN getHistoryFrom(d, k + 1, acc)
             ELSE IF readHistoryFile(e) # "none"
                  THEN [err |-> readHistoryFile(e), history |-> acc]
             ELSE getHistoryFrom(d, k + 1, acc \o e.h)

\* InitConfig.GetInstanceHistory
getInstanceHistory(d, dirErr) ==
    IF dirErr THEN [err |-> "io", history |-> << >>]
    ELSE getHistoryFrom(d, 1, << >>)

\* the history directory when GetInstanceHistory is called: CreateDirectories
\* has returned, so the path of the current instance exists
ReadInit ==
    /\ InitMachine
    /\ fatalCountFile = << >>
    /\ InitProcess
    /\ IdleButRead
    /\ rdDir \in [InstanceIDs -> ReadEntries]
    /\ rdDir[bootInstance].kind # "absent"
    /\ rdDirErr \in BOOLEAN
    /\ rdCounter \in {<< >>, << PerBootFatalLimit + 1 >>}
    /\ rdPc = "call"
    /\ rdHistory = << >>
    /\ rdErr = "none"
    /\ rdExit = 0
    /\ rdGated = 0

\* run.go line 69: c.GetInstanceHistory() returns
CallGetInstanceHistory ==
    /\ rdPc = "call"
    /\ LET r == getInstanceHistory(rdDir, rdDirErr)
       IN  /\ rdErr' = r.err
           /\ rdHistory' = r.history
    /\ rdPc' = "read"
    /\ UNCHANGED << rdDir, rdDirErr, rdCounter, rdExit, rdGated, exceptRead >>

\* run.go lines 70-72: Fatalf(computeExitCode(c, 1), ...)
ReadRunFatal(readErr, writeErr) ==
    /\ rdPc = "read"
    /\ rdErr # "none"
    /\ readErr => rdCounter # << >>
    /\ rdExit' = computeExitCode(1, rdCounter, readErr)
    /\ rdCounter' = fatalCountAfter(rdCounter, readErr, writeErr)
    /\ rdPc' = "exited"
    /\ UNCHANGED << rdDir, rdDirErr, rdHistory, rdErr, rdGated, exceptRead >>

\* run.go lines 73-86: the loop over the buckets starts and the gates are
\* evaluated
ReadRunLoop ==
    /\ rdPc = "read"
    /\ rdErr = "none"
    /\ rdGated' = Len(Modules)
    /\ rdPc' = "loop"
    /\ UNCHANGED << rdDir, rdDirErr, rdCounter, rdHistory, rdErr, rdExit, exceptRead >>

ReadNext ==
    \/ CallGetInstanceHistory
    \/ \E r, w \in BOOLEAN : ReadRunFatal(r, w)
    \/ ReadRunLoop

SpecRead == ReadInit /\ [][ReadNext]_vars

(***************************************************************************)
(* SpecImds: IMDSConfig.UpdateInstanceID called again and again (by the    *)
(* loop of SetupInstanceID) against an IMDS whose answers are arbitrary.   *)
(* An answer is a transport error (ok = FALSE) or an HTTP response with a  *)
(* status and a body.                                                      *)
(***************************************************************************)
HttpStatuses == {200, 401, 404, 500}
TokenBodies == {"", "token"}
LookupBodies == {"", "Unauthorized"} \cup InstanceIDs
Responses(bodies) ==
    {[ok |-> FALSE, status |-> 0, body |-> ""]}
    \cup {[ok |-> TRUE, status |-> st, body |-> b] : st \in HttpStatuses, b \in bodies}

\* getNewToken: a non-200 status is an error, the body of a 200 response is
\* the token
getNewToken(resp) ==
    IF ~resp.ok \/ resp.status # 200 THEN [err |-> TRUE, token |-> ""]
    ELSE [err |-> FALSE, token |-> resp.body]

\* getIMDSProperty: the body and the status are returned as they came
getIMDSProperty(token, tokenResp, resp) ==
    LET t == IF token = "" THEN getNewToken(tokenResp)
             ELSE [err |-> FALSE, token |-> token]
    IN  IF t.err \/ ~resp.ok
        THEN [value |-> "", code |-> 0, err |-> TRUE, token |-> t.token]
        ELSE [value |-> resp.body, code |-> resp.status, err |-> FALSE, token |-> t.token]

ImdsInit ==
    /\ InitMachine
    /\ fatalCountFile = << >>
    /\ InitProcess
    /\ bootInstance = InstanceName(1)
    /\ IdleButImds
    /\ imToken = ""
    /\ imInstanceID = ""
    /\ imErr = FALSE
    /\ imStatus = 0
    /\ imAccepted = 0
    /\ imCalls = 0

\* imds.go lines 94-96: the instance id is already set
CallUpdateInstanceIDSet ==
    /\ imCalls < MaxImdsCalls
    /\ imInstanceID # ""
    /\ imCalls' = imCalls + 1
    /\ imErr' = FALSE
    /\ UNCHANGED << imToken, imInstanceID, imStatus, imAccepted, exceptImds >>

\* imds.go lines 98-109: the value getIMDSProperty returns is stored, its
\* response code is dropped
CallUpdateInstanceID(tokenResp, resp) ==
    /\ imCalls < MaxImdsCalls
    /\ imInstanceID = ""
    /\ imCalls' = imCalls + 1
    /\ LET r == getIMDSProperty(imToken, tokenResp, resp)
       IN  /\ imToken' = r.token
           /\ imInstanceID' = r.value
           /\ imStatus' = r.code
           /\ imAccepted' = IF r.value # "" THEN r.code ELSE 0
           /\ imErr' = (r.err \/ r.value = "")
    /\ UNCHANGED exceptImds

ImdsNext ==
    \/ CallUpdateInstanceIDSet
    \/ \E tokenResp \in Responses(TokenBodies), resp \in Responses(LookupBodies) :
          CallUpdateInstanceID(tokenResp, resp)

SpecImds == ImdsInit /\ [][ImdsNext]_vars

(***************************************************************************)
(* SpecStore: the history directory under any sequence of `run`, `clean`   *)
(* and `clean -all`, the image being moved from instance to instance       *)
(* between invocations.  Nothing else writes the directory; it starts      *)
(* empty.  A run that reaches WriteHistoryFile records the modules of the  *)
(* plan with some outcome each.                                            *)
(***************************************************************************)
\* the outcomes a run may record
StoreSuccessSets == {{}, {"cmd"}, {"cmd", "once", "sys"}}

StoreInit ==
    /\ InitMachine
    /\ fatalCountFile = << >>
    /\ InitProcess
    /\ IdleButStore
    /\ stDisk = [id \in InstanceIDs |-> NoHistory]
    /\ stBoot \in InstanceIDs
    /\ stHistory = << >>
    /\ stCmd = "none"
    /\ stCleaned = {}

\* the image is started on another instance: SetupInstanceID stores its id
StoreSetupInstanceID(id) ==
    /\ id # stBoot
    /\ stBoot' = id
    /\ UNCHANGED << stDisk, stHistory, stCmd, stCleaned, exceptStore >>

\* run.go lines 61-147: CreateDirectories, GetInstanceHistory, the buckets,
\* WriteHistoryFile
StoreRun(succeeded) ==
    /\ LET created == CreateDirectories(stDisk, stBoot)
       IN  /\ stHistory' = GetInstanceHistory(created)
           /\ stDisk' = WriteHistoryFile(created, stBoot,
                                         PrioritizeModules(RanWith(succeeded)))
    /\ stCmd' = "run"
    /\ UNCHANGED << stBoot, stCleaned, exceptStore >>

\* run.go lines 61-147: the run ends before safeWrite renames the temporary
\* file (a fatal module, or WriteHistoryFile returns an error)
StoreRunNoWrite ==
    /\ stDisk' = CreateDirectories(stDisk, stBoot)
    /\ stHistory' = GetInstanceHistory(stDisk')
    /\ stCmd' = "run"
    /\ UNCHANGED << stBoot, stCleaned, exceptStore >>

\* part_008 lines 204-218: `clean`; os.RemoveAll may return an error with
\* the directory partly removed
StoreClean ==
    /\ \E e \in partlyRemoved(stDisk[stBoot]) \cup {removeCurrent(stDisk, stBoot)[stBoot]} :
        stDisk' = [stDisk EXCEPT ![stBoot] = e]
    /\ stCleaned' = IF stDisk'[stBoot] = NoHistory /\ stDisk[stBoot].dir
                    THEN stCleaned \cup {stBoot} ELSE stCleaned
    /\ stCmd' = "clean"
    /\ UNCHANGED << stBoot, stHistory, exceptStore >>

\* part_008 lines 190-203: `clean -all`
StoreCleanAll ==
    /\ stDisk' = removeAll(stDisk, stBoot)
    /\ stCleaned' = stCleaned \cup {id \in InstanceIDs : stDisk[id].dir}
    /\ stCmd' = "clean -all"
    /\ UNCHANGED << stBoot, stHistory, exceptStore >>

StoreNext ==
    \/ \E id \in InstanceIDs : StoreSetupInstanceID(id)
    \/ \E succeeded \in StoreSuccessSets : StoreRun(succeeded)
    \/ StoreRunNoWrite
    \/ StoreClean
    \/ StoreCleanAll

SpecStore == StoreInit /\ [][StoreNext]_vars

(***************************************************************************)
(* SpecReconfig: a configuration of one module, run again and again.       *)
(* Between runs the administrator may edit the module's name, priority,    *)
(* type or run type, and the image may be started on another instance.     *)
(* Each run reads the history, evaluates the gate, runs or skips the       *)
(* module and replaces the history file of the instance; c.InstanceHistory *)
(* ends with the process.                                                  *)
(***************************************************************************)
\* the declarations the administrator chooses from: a RunOnce command module
\* and the declarations that differ from it in the name, the priority, the
\* type or the run type
ReconfigModules ==
    {MkModule("a", p, FALSE, "RunOnce", "command") : p \in 1..MaxPriority}
    \cup {MkModule("b", 1, FALSE, "RunOnce", "command"),
          MkModule("a", 1, FALSE, "RunOnce", "userdata"),
          MkModule("a", 1, FALSE, "RunPerInstance", "command"),
          MkModule("a", 1, FALSE, "RunPerBoot", "command")}

ReconfigInit ==
    /\ InitMachine
    /\ fatalCountFile = << >>
    /\ InitProcess
    /\ IdleButReconfig
    /\ rcModule = MkModule("a", 1, FALSE, "RunOnce", "command")
    /\ rcDisk = [id \in InstanceIDs |-> NoHistory]
    /\ rcBoot = bootInstance
    /\ rcPrev = << >>
    /\ rcPc = "idle"
    /\ rcHistory = << >>
    /\ rcTask = "none"

\* init.toml is edited between two runs
ReconfigEdit(m) ==
    /\ rcPc = "idle"
    /\ m # rcModule
    /\ rcModule' = m
    /\ UNCHANGED << rcDisk, rcBoot, rcPrev, rcPc, rcHistory, rcTask, exceptReconfig >>

\* the image is started on another instance
ReconfigMove(id) ==
    /\ rcPc = "idle"
    /\ id # rcBoot
    /\ rcBoot' = id
    /\ UNCHANGED << rcModule, rcDisk, rcPrev, rcPc, rcHistory, rcTask, exceptReconfig >>

\* run.go lines 61-95: CreateDirectories, GetInstanceHistory, and the gate of
\* the module
ReconfigRunGate ==
    /\ rcPc = "idle"
    /\ rcDisk' = CreateDirectories(rcDisk, rcBoot)
    /\ rcHistory' = GetInstanceHistory(rcDisk')
    /\ rcTask' = IF ShouldRun(rcModule, rcBoot, rcHistory') THEN "do" ELSE "skipped"
    /\ rcPc' = "gated"
    /\ UNCHANGED << rcModule, rcBoot, rcPrev, exceptReconfig >>

\* run.go lines 95-147: Do returns (ok says without error) or the module is
\* skipped, and WriteHistoryFile replaces the history file
ReconfigRunWrite(ok) ==
    /\ rcPc = "gated"
    /\ LET m == [rcModule EXCEPT !.Success = (rcTask = "skipped" \/ ok)]
       IN  /\ rcDisk' = WriteHistoryFile(rcDisk, rcBoot, PrioritizeModules(<< m >>))
           /\ rcPrev' = << m >>
    /\ rcPc' = "idle"
    /\ rcTask' = "none"
    /\ rcHistory' = << >>
    /\ UNCHANGED << rcModule, rcBoot, exceptReconfig >>

ReconfigNext ==
    \/ \E m \in ReconfigModules : ReconfigEdit(m)
    \/ \E id \in InstanceIDs : ReconfigMove(id)
    \/ ReconfigRunGate
    \/ \E ok \in BOOLEAN : ReconfigRunWrite(ok)

SpecReconfig == ReconfigInit /\ [][ReconfigNext]_vars

(***************************************************************************)
(* SpecIdentify: one [[Module]] table of init.toml, decoded by toml.Decode *)
(* and then identified.  A sub-table (Command, SSHKeys, UserData,          *)
(* NetworkCheck) is absent or present; a present sub-table gives its field *)
(* a value or omits it.  One field stands for each sub-configuration:      *)
(* Cmd, GetIMDSOpenSSHKey, ExecuteUserData and PingCount.                  *)
(***************************************************************************)
Absent == [present |-> FALSE, field |-> << >>]
\* the sub-tables over the values a field may be given
SubTables(values) ==
    {Absent, [present |-> TRUE, field |-> << >>]}
    \cup {[present |-> TRUE, field |-> << v >>] : v \in values}

\* Cmd = ["/bin/echo"]
CmdValues == {<< "/bin/echo" >>}
PingCounts == {0, 3, 6}

TomlModules ==
    [Command : SubTables(CmdValues), SSHKeys : SubTables(BOOLEAN),
     UserData : SubTables(BOOLEAN), NetworkCheck : SubTables(PingCounts)]

\* toml.Decode of one sub-table into the struct field of Module: a field the
\* table does not give, and every field of an absent table, keeps the zero
\* value
decodeField(table, zero) ==
    IF table.present /\ table.field # << >> THEN table.field[1] ELSE zero

\* the Module toml.Decode produces, each sub-configuration by whether
\* cmp.Equal finds it different from the empty struct
decodeModule(t) ==
    Declaration("m", 1, TRUE, FALSE, FALSE,
                decodeField(t.Command, << >>) # << >>,
                decodeField(t.SSHKeys, FALSE) # FALSE,
                decodeField(t.UserData, FALSE) # FALSE,
                decodeField(t.NetworkCheck, 0) # 0)

IdentifyInit ==
    /\ InitMachine
    /\ fatalCountFile = << >>
    /\ InitProcess
    /\ bootInstance = InstanceName(1)
    /\ IdleButIdentify
    /\ idToml \in TomlModules
    /\ idModule = << >>
    /\ idResult = << >>

\* part_007 line 35: toml.Decode(string(rawConfig), c)
IdentifyDecode ==
    /\ idModule = << >>
    /\ idModule' = << decodeModule(idToml) >>
    /\ UNCHANGED << idToml, idResult, exceptIdentify >>

\* part_007 lines 46-50: c.Modules[i].identifyModule() returns; m.Type is set
IdentifyCall ==
    /\ idModule # << >>
    /\ idResult = << >>
    /\ idResult' = << identifyModule(idModule[1]) >>
    /\ idModule' = << [idModule[1] EXCEPT !.Type = identifyModule(idModule[1]).Type] >>
    /\ UNCHANGED << idToml, exceptIdentify >>

IdentifyNext == IdentifyDecode \/ IdentifyCall

SpecIdentify == IdentifyInit /\ [][IdentifyNext]_vars

(***************************************************************************)
(* SpecDefaults: the loop of SystemConfigModule.Do over c.ModifyDefaults.  *)
(* The module declares `go 1.19`, so m is one variable for the whole loop; *)
(* every goroutine gets &m, the address of that variable, and reads it     *)
(* when it runs, while the loop copies the next entry into it field after  *)
(* field.  Nothing orders a goroutine's read with the loop's writes.  An   *)
(* entry is given by two of its fields, Parameter and Value.               *)
(***************************************************************************)
DefaultsEntry(k) == [Parameter |-> "p" \o ToString(k), Value |-> "v" \o ToString(k)]
zeroModifyDefaults == [Parameter |-> "", Value |-> ""]

DefaultsInit ==
    /\ InitMachine
    /\ fatalCountFile = << >>
    /\ InitProcess
    /\ bootInstance = InstanceName(1)
    /\ IdleButDefaults
    /\ \E n \in 1..MaxDefaults : dfEntries = [k \in 1..n |-> DefaultsEntry(k)]
    /\ dfK = 1
    /\ dfPc = "copy"
    /\ dfM = zeroModifyDefaults
    /\ dfTask = [k \in 1..Len(dfEntries) |-> "unstarted"]
    /\ dfDid = [k \in 1..Len(dfEntries) |-> << >>]
    /\ dfWg = 0

\* line 104: the range clause assigns the next entry to m, first field
DefaultsRangeParameter ==
    /\ dfPc = "copy"
    /\ dfK <= Len(dfEntries)
    /\ dfM' = [dfM EXCEPT !.Parameter = dfEntries[dfK].Parameter]
    /\ dfPc' = "copied"
    /\ UNCHANGED << dfEntries, dfK, dfTask, dfDid, dfWg, exceptDefaults >>

\* line 104: ... and the last field
DefaultsRangeValue ==
    /\ dfPc = "copied"
    /\ dfM' = [dfM EXCEPT !.Value = dfEntries[dfK].Value]
    /\ dfPc' = "go"
    /\ UNCHANGED << dfEntries, dfK, dfTask, dfDid, dfWg, exceptDefaults >>

\* lines 105-120: wg.Add(1) and go func(modifyDefault *ModifyDefaults){...}(&m)
DefaultsGo ==
    /\ dfPc = "go"
    /\ dfWg' = dfWg + 1
    /\ dfTask' = [dfTask EXCEPT ![dfK] = "started"]
    /\ dfK' = dfK + 1
    /\ dfPc' = "copy"
    /\ UNCHANGED << dfEntries, dfM, dfDid, exceptDefaults >>

\* line 104: the range is exhausted; line 123: wg.Wait() is called
DefaultsLoopEnd ==
    /\ dfPc = "copy"
    /\ dfK > Len(dfEntries)
    /\ dfPc' = "wait"
    /\ UNCHANGED << dfEntries, dfK, dfM, dfTask, dfDid, dfWg, exceptDefaults >>

\* lines 107-119: the goroutine calls modifyDefaults(modifyDefault), which
\* reads *modifyDefault, that is m as it is now, and then wg.Done()
DefaultsTask(t) ==
    /\ dfTask[t] = "started"
    /\ dfDid' = [dfDid EXCEPT ![t] = << dfM >>]
    /\ dfTask' = [dfTask EXCEPT ![t] = "done"]
    /\ dfWg' = dfWg - 1
    /\ UNCHANGED << dfEntries, dfK, dfPc, dfM, exceptDefaults >>

\* line 123: wg.Wait() returns
DefaultsWaitReturns ==
    /\ dfPc = "wait"
    /\ dfWg = 0
    /\ dfPc' = "returned"
    /\ UNCHANGED << dfEntries, dfK, dfM, dfTask, dfDid, dfWg, exceptDefaults >>

DefaultsNext ==
    \/ DefaultsRangeParameter
    \/ DefaultsRangeValue
    \/ DefaultsGo
    \/ DefaultsLoopEnd
    \/ \E t \in 1..Len(dfEntries) : DefaultsTask(t)
    \/ DefaultsWaitReturns

SpecDefaults == DefaultsInit /\ [][DefaultsNext]_vars

(***************************************************************************)
(* SpecPassword: UserManagementModule.randomizePassword.  Every command    *)
(* it executes succeeds or fails.  The results message and err are named,  *)
(* so that the deferred function, which runs after a return statement has  *)
(* set them, can overwrite them.  err is "" for nil, or says which step    *)
(* failed.  The module runs again at later boots.                          *)
(***************************************************************************)
PasswordUsers == {"", "ec2-user", "admin"}

Returns(message, err) == [message |-> message, err |-> err]

\* C39, mutant: a failing enableSecureTokenCreation is logged only, the
\* results stay as the return statement set them
deferredResultKept(result, deferErr) == result

\* lines 142-149: the deferred function, given the results set by the return
\* statement and whether enableSecureTokenCreation returned an error
deferredResult(result, deferErr) ==
    IF deferErr THEN Returns("", "enable " \o result.err) ELSE result

PasswordInit ==
    /\ InitMachine
    /\ fatalCountFile = << >>
    /\ InitProcess
    /\ bootInstance = InstanceName(1)
    /\ IdleButPassword
    /\ pwUser \in PasswordUsers
    /\ pwPc = "idle"
    /\ pwDisabledTag = FALSE
    /\ pwPasswordSet = FALSE
    /\ pwDefer = FALSE
    /\ pwEnableCalls = 0
    /\ pwEnableErr = FALSE
    /\ pwResult = << >>
    /\ pwCalls = 0

\* lines 103-109: randomizePassword is called; an empty User becomes ec2-user
PasswordCall ==
    /\ pwPc \in {"idle", "returned"}
    /\ pwCalls < MaxPwCalls
    /\ pwCalls' = pwCalls + 1
    /\ pwUser' = IF pwUser = "" THEN "ec2-user" ELSE pwUser
    /\ pwPc' = "user"
    /\ pwDefer' = FALSE
    /\ pwEnableCalls' = 0
    /\ pwEnableErr' = FALSE
    /\ pwResult' = << >>
    /\ UNCHANGED << pwDisabledTag, pwPasswordSet, exceptPassword >>

\* lines 111-118: userExists
PasswordUserExists(r) ==
    /\ pwPc = "user"
    /\ IF r = "exists"
       THEN pwPc' = "token" /\ pwResult' = pwResult
       ELSE pwPc' = "returned" /\ pwResult' = << Returns("", r) >>
    /\ UNCHANGED << pwUser, pwDisabledTag, pwPasswordSet, pwDefer, pwEnableCalls,
                    pwEnableErr, pwCalls, exceptPassword >>

\* lines 120-129: isSecureTokenSet
PasswordIsSecureTokenSet(r) ==
    /\ pwPc = "token"
    /\ IF r = "unset"
       THEN pwPc' = "disable" /\ pwResult' = pwResult
       ELSE pwPc' = "returned" /\ pwResult' = << Returns("", r) >>
    /\ UNCHANGED << pwUser, pwDisabledTag, pwPasswordSet, pwDefer, pwEnableCalls,
                    pwEnableErr, pwCalls, exceptPassword >>

\* lines 131-142: disableSecureTokenCreation; when it succeeds the defer
\* statement registers the function that enables it again
PasswordDisable(ok) ==
    /\ pwPc = "disable"
    /\ IF ok
       THEN /\ pwDisabledTag' = TRUE
            /\ pwDefer' = TRUE
            /\ pwPc' = "generate"
            /\ pwResult' = pwResult
       ELSE /\ pwPc' = "returned"
            /\ pwResult' = << Returns("", "disable") >>
            /\ UNCHANGED << pwDisabledTag, pwDefer >>
    /\ UNCHANGED << pwUser, pwPasswordSet, pwEnableCalls, pwEnableErr, pwCalls,
                    exceptPassword >>

\* lines 151-155: generateSecurePassword
PasswordGenerate(ok) ==
    /\ pwPc = "generate"
    /\ IF ok
       THEN pwPc' = "change" /\ pwResult' = pwResult
       ELSE /\ pwPc' = IF pwDefer THEN "deferred" ELSE "returned"
            /\ pwResult' = << Returns("", "generate") >>
    /\ UNCHANGED << pwUser, pwDisabledTag, pwPasswordSet, pwDefer, pwEnableCalls,
                    pwEnableErr, pwCalls, exceptPassword >>

\* lines 157-163: changePassword, and the return statement after it
PasswordChange(ok) ==
    /\ pwPc = "change"
    /\ pwPc' = IF pwDefer THEN "deferred" ELSE "returned"
    /\ IF ok
       THEN /\ pwPasswordSet' = TRUE
            /\ pwResult' = << Returns("successfully set secure password for " \o pwUser, "") >>
       ELSE /\ pwPasswordSet' = pwPasswordSet
            /\ pwResult' = << Returns("", "change") >>
    /\ UNCHANGED << pwUser, pwDisabledTag, pwDefer, pwEnableCalls, pwEnableErr, pwCalls,
                    exceptPassword >>

\* lines 142-149: the deferred function runs enableSecureTokenCreation
PasswordDeferred(ok) ==
    /\ pwPc = "deferred"
    /\ pwEnableCalls' = pwEnableCalls + 1
    /\ pwEnableErr' = ~ok
    /\ pwDisabledTag' = IF ok THEN FALSE ELSE pwDisabledTag
    /\ pwResult' = << deferredResult(pwResult[1], ~ok) >>
    /\ pwPc' = "returned"
    /\ UNCHANGED << pwUser, pwPasswordSet, pwDefer, pwCalls, exceptPassword >>

PasswordNext ==
    \/ PasswordCall
    \/ \E r \in {"exists", "missing", "user"} : PasswordUserExists(r)
    \/ \E r \in {"unset", "set", "token"} : PasswordIsSecureTokenSet(r)
    \/ \E ok \in BOOLEAN : PasswordDisable(ok)
    \/ \E ok \in BOOLEAN : PasswordGenerate(ok)
    \/ \E ok \in BOOLEAN : PasswordChange(ok)
    \/ \E ok \in BOOLEAN : PasswordDeferred(ok)

SpecPassword == PasswordInit /\ [][PasswordNext]_vars

(***************************************************************************)
(* SpecRetry: retry(attempts, sleep, f).  Each call of f returns an error  *)
(* or nil.  attempts may be 0: the loop calls f before it looks at         *)
(* attempts.                                                               *)
(***************************************************************************)
\* C40, mutant: the loop ends one iteration later
lastAttemptLate(iter, attempts) == iter >= attempts

\* util.go line 175: i >= (attempts - 1)
lastAttempt(iter, attempts) == iter >= (attempts - 1)

RetryInit ==
    /\ InitMachine
    /\ fatalCountFile = << >>
    /\ InitProcess
    /\ bootInstance = InstanceName(1)
    /\ IdleButRetry
    /\ rtAttempts \in 0..MaxAttempts
    /\ rtSleep \in {0, 1}
    /\ rtI = 0
    /\ rtPc = "loop"
    /\ rtOutcomes = << >>
    /\ rtSlept = 0
    /\ rtErr = << >>

\* util.go lines 171-177 and 181: err = f(); return on nil, break on the
\* last attempt
RetryCallF(failed) ==
    /\ rtPc = "loop"
    /\ rtOutcomes' = Append(rtOutcomes, failed)
    /\ IF ~failed
       THEN rtPc' = "returned" /\ rtErr' = << FALSE >>
       ELSE IF lastAttempt(rtI, rtAttempts)
            THEN rtPc' = "returned" /\ rtErr' = << TRUE >>
            ELSE rtPc' = "sleep" /\ rtErr' = rtErr
    /\ UNCHANGED << rtAttempts, rtSleep, rtI, rtSlept, exceptRetry >>

\* util.go lines 179 and 170: time.Sleep(sleep); i++
RetrySleep ==
    /\ rtPc = "sleep"
    /\ rtSlept' = rtSlept + rtSleep
    /\ rtI' = rtI + 1
    /\ rtPc' = "loop"
    /\ UNCHANGED << rtAttempts, rtSleep, rtOutcomes, rtErr, exceptRetry >>

RetryNext ==
    \/ \E failed \in BOOLEAN : RetryCallF(failed)
    \/ RetrySleep

SpecRetry == RetryInit /\ [][RetryNext]_vars

(***************************************************************************)
(* Properties.                                                             *)
(***************************************************************************)
fatalByName == [n \in Names |-> ModuleNamed(n).FatalOnError]
IsFatal(n) == fatalByName[n]
\* the history key of each module of the plan
keyByName == [n \in Names |-> generateHistoryKey(ModuleNamed(n))]
\* the run type of each module of the plan
runTypeByName == [n \in Names |-> runTypeOf(ModuleNamed(n))]
\* the module's Do returned an error in this run
ReturnedError(n) == task[n] \in {"name", "err"}
\* the run is past the bucket loop, or over
PastLoop == pc \in {"write", "final", "exited"}
\* the run ended through run's own steps after the loop was entered, and not
\* because the history file could not be written
EndedAfterLoop == pc = "exited" /\ exitAt \in {"do", "aggregate", "return"}

\* C1: buckets are visited in ascending priority with a barrier between
\* them: when a goroutine of a module b has started, every module a of a
\* lower priority has finished, and no goroutine of a bucket after the
\* current one has started.
C1_BucketBarrier ==
    /\ \A a, b \in Names :
          (PriorityOf(a) < PriorityOf(b) /\ task[b] \in Started) => task[a] \in Finished
    /\ \A b \in Names : task[b] \in Started => PriorityOf(b) <= i + 1

\* C1, witness: a goroutine of the last bucket runs after the first bucket
\* has finished.
C1_Witness ==
    /\ pc = "wait"
    /\ \E a, b \in Names :
          /\ PriorityOf(a) < PriorityOf(b)
          /\ task[b] \in {"spawned", "do"}
          /\ task[a] \in Finished

\* C2: when a FatalOnError module has returned an error, every other
\* goroutine of its bucket has finished once the run is past the loop or
\* over, and no module of a later bucket is ever gated or invoked.
C2_FatalEndsRunAfterBucket ==
    \A n \in Names :
        (IsFatal(n) /\ ReturnedError(n)) =>
            /\ PastLoop =>
                  \A s \in Names \ {n} :
                      PriorityOf(s) = PriorityOf(n) => task[s] \in Finished
            /\ \A b \in Names : PriorityOf(b) > PriorityOf(n) => task[b] = "none"

\* C3: a RunOnce module that once returned without error (in a run that
\* wrote its history) is never invoked again, on any instance.
C3_RunOnceNeverAgain ==
    \A n \in Names :
        (ModuleNamed(n).RunOnce /\ task[n] = "do") =>
            \A id \in InstanceIDs : << n, id >> \notin recordedOn

\* C4: a RunPerInstance module that once returned without error on the
\* current instance (in a run that wrote its history) is never invoked again
\* on that instance.
C4_RunPerInstanceNeverAgain ==
    \A n \in Names :
        (ModuleNamed(n).RunPerInstance /\ task[n] = "do") =>
            << n, instanceID >> \notin recordedOn

\* some entry of the list, of any instance, holds a successful record of key
SucceededAnywhere(key, history) ==
    \E k \in 1..Len(history) : \E r \in 1..Len(history[k].ModuleHistories) :
        /\ history[k].ModuleHistories[r].Key = key
        /\ history[k].ModuleHistories[r].Success

\* some entry of the list of instance id holds a successful record of key
SucceededOnInstance(key, id, history) ==
    \E k \in 1..Len(history) :
        /\ history[k].InstanceID = id
        /\ \E r \in 1..Len(history[k].ModuleHistories) :
              /\ history[k].ModuleHistories[r].Key = key
              /\ history[k].ModuleHistories[r].Success

C6_RunPerInstanceGate ==
    (gResult # << >> /\ gModule.RunPerInstance) =>
        ((gResult[1] = FALSE) <=>
            SucceededOnInstance(generateHistoryKey(gModule), gInstanceID, gHistory))

C8_NonFatalErrorContinues ==
    ( /\ EndedAfterLoop
      /\ \E n \in Names : ~IsFatal(n) /\ ReturnedError(n)
      /\ ~\E n \in Names : IsFatal(n) /\ ReturnedError(n) )
    => /\ \A n \in Names : task[n] \in Finished
       /\ exitCode = 0

\* C9: a run that has entered the bucket loop writes the history file
\* exactly once: not before the last executed bucket has joined, and before
\* the run ends.
C9_HistoryWrittenOnce ==
    /\ pc \in {"loop", "wait", "write"} => historyWrites = 0
    /\ pc = "final" => historyWrites = 1
    /\ EndedAfterLoop => historyWrites = 1

\* the records of key in the history file of the current instance
RecordsOf(key) ==
    LET h == disk[instanceID].file[1]
    IN  {r \in 1..Len(h.ModuleHistories) : h.ModuleHistories[r].Key = key}

\* C10: in the history a run has written, the record of a module has
\* success = true exactly when the module was skipped by the gate or was
\* invoked and returned no error in this run; a module that returned an
\* error or whose bucket was not reached is recorded with success = false.
C10_RecordedSuccess ==
    historyWrites = 1 =>
        /\ disk[instanceID].file # << >>
        /\ \A n \in Names :
              /\ RecordsOf(keyByName[n]) # {}
              /\ \A r \in RecordsOf(keyByName[n]) :
                    disk[instanceID].file[1].ModuleHistories[r].Success
                        <=> task[n] \in {"skipped", "ok"}

\* C10, witness: a written history of a run in which one module was skipped,
\* one returned an error and one was never reached.
C10_Witness ==
    /\ historyWrites = 1
    /\ \E n \in Names : task[n] = "skipped"
    /\ \E n \in Names : task[n] = "err"
    /\ \E n \in Names : task[n] = "none"

\* the module whose history key is key
NameOfKey(key) == CHOOSE n \in Names : keyByName[n] = key

\* C11: the history file a run has written belongs to the current instance
\* and holds exactly one record per module of the plan and no other record,
\* in ascending order of priority group, modules of unreached buckets
\* included; whatever the file held before is gone.
C11_HistoryIsThePlan ==
    historyWrites = 1 =>
        /\ disk[instanceID].file # << >>
        /\ LET h == disk[instanceID].file[1] IN
              /\ h.InstanceID = instanceID
              /\ Len(h.ModuleHistories) = Cardinality(Names)
              /\ \A n \in Names :
                    Cardinality(RecordsOf(keyByName[n])) = 1
              /\ \A r, t \in 1..Len(h.ModuleHistories) :
                    r < t => PriorityOf(NameOfKey(h.ModuleHistories[r].Key))
                                <= PriorityOf(NameOfKey(h.ModuleHistories[t].Key))

\* C11, witness: a run has replaced a history file of its instance that held
\* other records, and the last bucket was not reached in this run.
C11_Witness ==
    /\ historyWrites = 1
    /\ \E n \in Names : task[n] = "none"
    /\ \E k \in 1..Len(InstanceHistory) :
          /\ InstanceHistory[k].InstanceID = instanceID
          /\ InstanceHistory[k].ModuleHistories # << >>
          /\ InstanceHistory[k].ModuleHistories # disk[instanceID].file[1].ModuleHistories

C13_AtMost100NonzeroExits ==
    bootClean => nonzeroExits <= 100

\* C14: at every moment of a history write, a crash included, the final path
\* holds what it held before the call as long as the rename has not taken
\* place, and the complete new contents from then on; it is never partially
\* written or of length zero.
C14_AtomicHistoryWrite ==
    /\ ~swRenamed => swFs[historyFile] = swPrior
    /\ swRenamed => swFs[historyFile] = << swData >>
    /\ swFs[historyFile] # << >> => Len(swFs[historyFile][1]) > 0

\* C14, witness: the process crashed while the temporary file held a part
\* of the data only, and the final path still holds the earlier contents.
C14_Witness ==
    /\ swPc = "crashed"
    /\ swPrior # << >>
    /\ swFs[historyFile] = swPrior
    /\ swName = CreateTempName(historyFile)
    /\ swFs[swName] # << >>
    /\ Len(swFs[swName][1]) > 0
    /\ Len(swFs[swName][1]) < Len(swData)

\* the run-type flags set in a declaration
FlagsSet(m) == {f \in RunTypeFlags : m[f]}

\* the sub-configurations of a declaration that are not the empty struct
NonDefault(m) == {k \in 1..Len(SubConfigs) : m[SubConfigs[k].field]}

\* C15: validateModule returns an error exactly when the number of run-type
\* flags set is not one or PriorityGroup is less than 1.
C15_ValidateModule ==
    cValidate # << >> =>
        (cValidate[1] <=> (Cardinality(FlagsSet(cModule)) # 1 \/ cModule.PriorityGroup < 1))

\* C15, witness: a declaration with one run type and an unset priority
\* (0) is refused.
C15_Witness ==
    /\ cValidate = << TRUE >>
    /\ Cardinality(FlagsSet(cModule)) = 1
    /\ cModule.PriorityGroup = 0

\* no two positions of the configuration hold the same name
NamesDistinct(modules) ==
    \A j, k \in 1..Len(modules) : j # k => modules[j].Name # modules[k].Name

\* every module of the configuration, taken alone, is identified and valid
EachModulePasses(modules) ==
    \A k \in 1..Len(modules) :
        /\ Cardinality(NonDefault(modules[k])) >= 1
        /\ Cardinality(FlagsSet(modules[k])) = 1
        /\ modules[k].PriorityGroup >= 1

\* C16: for a configuration whose modules each pass identification and
\* validation, ValidateAndIdentify returns an error exactly when two modules
\* have the same Name.
C16_DuplicateNames ==
    (cResult # << >> /\ EachModulePasses(cModules)) =>
        (cResult[1].err # "" <=> ~NamesDistinct(cModules))

\* C16, witness: a configuration is refused for a name that its first and
\* its third module share, the second having another name.
C16_Witness ==
    /\ cResult # << >>
    /\ EachModulePasses(cModules)
    /\ Len(cModules) = 3
    /\ cModules[1].Name = cModules[3].Name
    /\ cModules[1].Name # cModules[2].Name
    /\ cResult[1].err = "duplicate"

\* C17: identifyModule succeeds exactly when one sub-configuration and no
\* more is non-default, and then the type is that sub-configuration's tag;
\* with none or with two or more it returns an error.
C17_IdentifyExactlyOne ==
    cIdentify # << >> =>
        /\ ~cIdentify[1].err <=> Cardinality(NonDefault(cModule)) = 1
        /\ ~cIdentify[1].err =>
              \A k \in NonDefault(cModule) : cIdentify[1].Type = SubConfigs[k].tag

\* C19: when SetupInstanceID gives up and returns an error, it has called
\* UpdateInstanceID exactly 600 times.
C19_GivesUpAfter600 ==
    (probePc = "returned" /\ probeErr) => probeCalls = 600

\* the counter file says that the cap of fatal exits has been reached
CapReached == fatalCountFile # << >> /\ fatalCountFile[1] > 100

C20_ProbeExhaustedExits75 ==
    (pc = "exited" /\ exitAt = "imds" /\ ~counterReadErr) =>
        /\ exitCode \in {75, 0}
        /\ \A n \in Names : task[n] = "none"
        /\ historyWrites = 0

\* the largest PriorityGroup of the configuration, 0 when it is empty
MaxPriorityOf(modules) ==
    IF modules = << >> THEN 0
    ELSE CHOOSE p \in {modules[k].PriorityGroup : k \in 1..Len(modules)} :
            \A k \in 1..Len(modules) : modules[k].PriorityGroup <= p
\* the modules of the configuration that declare priority p, in its order
WithPriority(modules, p) == SelectSeq(modules, LAMBDA m : m.PriorityGroup = p)

\* C21: when PrioritizeModules has returned, ModulesByPriority has as many
\* buckets as the largest priority of the configuration, and bucket p-1
\* holds exactly the modules of priority p, each once (so the bucket of an
\* unused priority is empty), whatever the order of the priorities in the
\* configuration; and when the loop of run has ended it has visited every
\* bucket in order, the empty ones as iterations that start no task.
C21_BucketsByPriority ==
    /\ pmPc \in {"returned", "done"} =>
        /\ pmSlice.len = MaxPriorityOf(pmModules)
        /\ \A p \in 1..pmSlice.len : pmSlice.arr[p] = WithPriority(pmModules, p)
        /\ visible(pmSlice) = PrioritizeModules(pmModules)
    /\ pmPc = "done" =>
        pmVisited = [p \in 1..MaxPriorityOf(pmModules) |->
                        Len(WithPriority(pmModules, p))]
\* the configuration declares priority 3 before priority 1 and no priority
\* 2: three buckets were visited, the second one empty
C21_Witness ==
    /\ pmPc = "done"
    /\ Len(pmModules) = 2
    /\ pmModules[1].PriorityGroup = 3
    /\ pmModules[2].PriorityGroup = 1
    /\ pmVisited = << 1, 0, 1 >>

\* C22: the history key is injective: a module whose key is the key
\* returned agrees with the module it was generated from on priority, run
\* type, type tag and name, also when the names hold "_" or look like the
\* other fields of a key.
C22_KeyInjective ==
    kKey # << >> =>
        \A m \in KeyModules :
            generateHistoryKey(m) = kKey[1] =>
                /\ m.PriorityGroup = kModule.PriorityGroup
                /\ runTypeOf(m) = runTypeOf(kModule)
                /\ m.Type = kModule.Type
                /\ m.Name = kModule.Name
\* the key of a command module named "command_x"
C22_Witness ==
    /\ kModule.Name = "command_x"
    /\ kKey = << "1_RunOnce_command_command_x" >>

\* C23: `clean` without -all, however it ends, leaves the subdirectory and
\* the history file of every instance other than the current one as they
\* were; when it succeeds the subdirectory of the current instance is gone.
C23_CleanCurrentOnly ==
    (clCmd = "clean" /\ clPc = "cleaned") =>
        /\ \A id \in InstanceIDs \ {clBoot} : clDisk[id] = clPrior[id]
        /\ clExit = 0 => clDisk[clBoot] = NoHistory
\* the second instance is cleaned while both instances have a history file
C23_Witness ==
    /\ clCmd = "clean"
    /\ clPc = "cleaned"
    /\ clExit = 0
    /\ clBoot = InstanceName(2)
    /\ \A id \in InstanceIDs : clPrior[id].file # << >>
    /\ clDisk[InstanceName(2)] = NoHistory
    /\ clDisk[InstanceName(1)].file # << >>

\* C24: after a `clean -all` that succeeded, the next run reads an empty
\* history without error and the gate returns true for every module of the
\* plan, whatever the history directory held before.
C24_CleanAllIsFirstBoot ==
    (clCmd = "clean -all" /\ clExit = 0) =>
        /\ clPc \in {"read", "gated"} => (~clReadErr /\ clInstanceHistory = << >>)
        /\ clPc = "gated" => \A n \in Names : clGate[n]
\* every module had succeeded on the current instance, whose gate would
\* have refused the RunOnce and the RunPerInstance modules
C24_Witness ==
    /\ clCmd = "clean -all"
    /\ clExit = 0
    /\ clPc = "gated"
    /\ clPrior[clBoot].file =
        << HistoryOf(clBoot, PrioritizeModules(RanWith({"cmd", "once", "sys"}))) >>
    /\ ~ShouldRun(ModuleNamed("once"), clBoot, GetInstanceHistory(clPrior))
    /\ ~ShouldRun(ModuleNamed("cmd"), clBoot, GetInstanceHistory(clPrior))
    /\ clGate["once"] /\ clGate["cmd"] /\ clGate["sys"]

\* C25: whatever the state of the counter file (absent, readable,
\* unreadable or malformed, unwritable), computeExitCode(e) returns e or 0.
C25_ReturnsRequestedOrZero ==
    guardCalls > 0 => guardRet \in {guardReq, 0}

C27_ModuleErrorsContained ==
    /\ \A n \in Names : task[n] # "exited"
    /\ (pc = "exited" /\ \E n \in Names : task[n] \in Invoked) =>
          /\ exitAt \in {"write", "aggregate", "return"}
          /\ \A n \in Names : task[n] \in Started => task[n] \in Finished

\* the goroutines that are between entering the update of the sentinel
\* (run.go line 116) and the end of the assignment of the name (line 118)
InSentinelUpdate == {k \in Tasks : snTask[k] \in {"flag", "name", "len"}}

\* C28: at no moment are two goroutines of a bucket inside the update of
\* the aggregate-fatal flag and module name, and run reads them only when
\* every goroutine of the bucket has finished.
C28_SentinelExclusive ==
    /\ Cardinality(InSentinelUpdate) <= 1
    /\ snPc \in {"joined", "fatal", "returned"} =>
          \A k \in Tasks : snTask[k] \in {"ok", "err"}

\* the modules of the bucket with FatalOnError whose Do returned an error
FatalErrored == {k \in Tasks : snFatal[k] /\ snTask[k] = "err"}

\* C29: the name reported with an aggregate fatal is the name of a module
\* of the bucket that has FatalOnError and returned an error, and the run
\* ends with the aggregate fatal exactly when there is such a module.
C29_ReportedNameIsACulprit ==
    /\ snPc = "fatal" => \E k \in FatalErrored : snReported = StringOf(k)
    /\ snPc \in {"fatal", "returned"} => (snPc = "fatal" <=> FatalErrored # {})

\* C30: when safeWrite has returned, the temporary file it created is not in
\* the directory any more; and when it has returned an error (the create,
\* the write, the sync or the rename failed) the final path holds what it
\* held before the call.
C30_NoTempFileLeft ==
    swPc = "returned" =>
        /\ swFs[CreateTempName(historyFile)] = << >>
        /\ ~swRenamed => swFs[historyFile] = swPrior
\* safeWrite has returned an error after it had created the temporary file,
\* next to an earlier history file
C30_Witness ==
    /\ swPc = "returned"
    /\ ~swRenamed
    /\ swName = CreateTempName(historyFile)
    /\ swPrior # << >>
    /\ swFs[swName] = << >>
    /\ swFs[historyFile] = swPrior

\* the subdirectories that hold a regular, non-empty, decodable history file
Decodable == {k \in 1..MaxInstances :
                rdDir[InstanceName(k)].kind = "dir" /\ rdDir[InstanceName(k)].hf = "valid"}
\* the subdirectories whose history file makes readHistoryFile fail
Failing(kinds) == {k \in 1..MaxInstances :
                    rdDir[InstanceName(k)].kind = "dir" /\ rdDir[InstanceName(k)].hf \in kinds}
\* the number of decodable subdirectories up to the k-th
RankOf(k) == Cardinality({l \in Decodable : l <= k})

\* C31: when GetInstanceHistory returns without error the list holds
\* exactly one entry for each subdirectory with a regular, non-empty,
\* decodable history file, in the order of the directory listing; and it
\* returns an error only when the directory cannot be listed or some
\* history file is unreadable or malformed, never because a history file is
\* missing, empty or not regular.
C31_OneEntryPerHistoryFile ==
    rdPc # "call" =>
        /\ rdErr = "none" =>
              /\ Len(rdHistory) = Cardinality(Decodable)
              /\ \A k \in Decodable : rdHistory[RankOf(k)] = rdDir[InstanceName(k)].h[1]
        /\ rdErr # "none" => (rdDirErr \/ Failing({"unreadable", "malformed"}) # {})
\* one subdirectory holds an empty history file, another one a valid file:
\* one entry is returned
C31_Witness ==
    /\ rdPc = "read"
    /\ rdErr = "none"
    /\ rdDir[InstanceName(1)].kind = "dir"
    /\ rdDir[InstanceName(1)].hf = "empty"
    /\ rdDir[InstanceName(2)].hf = "valid"
    /\ Len(rdHistory) = 1

\* C32: when the directory can be listed and every history file can be
\* read, a malformed history file under any subdirectory makes
\* GetInstanceHistory return an error of the malformed-history kind; and
\* after any error of GetInstanceHistory the run ends with a nonzero status
\* (0 when the cap of the crash-loop guard is reached) and no gate is ever
\* evaluated.
C32_MalformedHistoryIsFatal ==
    /\ (rdPc # "call" /\ ~rdDirErr /\ Failing({"unreadable"}) = {}
            /\ Failing({"malformed"}) # {}) => rdErr = "malformed"
    /\ rdErr # "none" =>
          /\ rdPc \in {"read", "exited"}
          /\ rdGated = 0
          /\ rdPc = "exited" => (rdExit # 0 \/ RetriesExceeded(rdCounter))
\* the malformed file is under another instance's subdirectory
C32_Witness ==
    /\ rdPc = "exited"
    /\ rdErr = "malformed"
    /\ rdExit = 1
    /\ \E id \in InstanceIDs \ {bootInstance} : rdDir[id].hf = "malformed"
    /\ rdDir[bootInstance].hf # "malformed"

\* C33: an instance id is stored only from a response of status 200, and a
\* call that received a response of another status returns an error.
C33_InstanceIDOnlyFrom200 ==
    /\ imInstanceID # "" => imAccepted = 200
    /\ (imCalls > 0 /\ imStatus \notin {0, 200}) => imErr

\* C34: after any sequence of run and clean invocations every history file
\* sits in the subdirectory named by the InstanceID it records, and the
\* history list a run reads holds at most one entry per instance id
C34_FileUnderItsInstanceID ==
    /\ \A id \in DOMAIN stDisk :
        stDisk[id].file # << >> =>
            stDisk[id].dir /\ stDisk[id].file[1].InstanceID = id
    /\ \A j, k \in 1..Len(stHistory) :
        stHistory[j].InstanceID = stHistory[k].InstanceID => j = k

\* a run on the second instance has read the histories of two instances
\* after a clean removed a subdirectory, and has written its own file
C34_Witness ==
    /\ stCmd = "run"
    /\ stCleaned # {}
    /\ Len(stHistory) = 2
    /\ stBoot = InstanceName(2)
    /\ stDisk[stBoot].file # << >>

\* the history read by this run holds, under the given success value, a record
\* of the module's key that the module's gate looks at: any entry for RunOnce,
\* the entry of the current instance for RunPerInstance
GateSeesRecord(n, success) ==
    \E k \in 1..Len(InstanceHistory) :
        /\ runTypeByName[n] = "RunOnce" \/ InstanceHistory[k].InstanceID = instanceID
        /\ \E r \in 1..Len(InstanceHistory[k].ModuleHistories) :
            /\ InstanceHistory[k].ModuleHistories[r].Key = keyByName[n]
            /\ InstanceHistory[k].ModuleHistories[r].Success = success

KeyAsSpecified(m) ==
    ToString(m.PriorityGroup) \o "_" \o runTypeOf(m) \o "_" \o m.Type \o "_" \o m.Name

\* the module was recorded as succeeded by the last run, and its name,
\* priority, type or run type has been changed since
ChangedSinceSuccess ==
    /\ rcPc = "gated"
    /\ rcPrev # << >>
    /\ rcPrev[1].Success
    /\ \/ rcPrev[1].Name # rcModule.Name
       \/ rcPrev[1].PriorityGroup # rcModule.PriorityGroup
       \/ rcPrev[1].Type # rcModule.Type
       \/ runTypeOf(rcPrev[1]) # runTypeOf(rcModule)

\* the history read by the run holds a successful record under the key of
\* the module as it is declared now, in an entry its gate consults
NewKeyAlreadySucceeded ==
    /\ ~rcModule.RunPerBoot
    /\ \E k \in 1..Len(rcHistory) :
        /\ rcModule.RunOnce \/ rcHistory[k].InstanceID = rcBoot
        /\ \E r \in 1..Len(rcHistory[k].ModuleHistories) :
            /\ rcHistory[k].ModuleHistories[r].Key = KeyAsSpecified(rcModule)
            /\ rcHistory[k].ModuleHistories[r].Success

\* C36, as stated: after a change of the name, priority, type or run type of
\* a module that succeeded, the gate of the next run returns true and the
\* module is executed, whatever other records the history holds
C36_ChangeReExecutes ==
    ChangedSinceSuccess => rcTask = "do"

\* C36, amended: after such a change the gate of the next run returns true and
\* the module is executed, unless the history holds a successful record under
\* the module's new key in an entry the gate consults
C36_ChangeReExecutesUnlessNewKeySucceeded ==
    (ChangedSinceSuccess /\ ~NewKeyAlreadySucceeded) => rcTask = "do"

\* the priority of a module that succeeded was changed, and the module runs
\* again
C36_Witness ==
    /\ ChangedSinceSuccess
    /\ rcPrev[1].PriorityGroup # rcModule.PriorityGroup
    /\ rcPrev[1].Name = rcModule.Name
    /\ rcHistory # << >>
    /\ ~NewKeyAlreadySucceeded
    /\ rcTask = "do"

\* the sub-configurations the declaration provides, as indices of SubConfigs
Provided(t) ==
    {k \in 1..Len(SubConfigs) :
        \/ k = 1 /\ t.Command.present
        \/ k = 2 /\ t.SSHKeys.present
        \/ k = 3 /\ t.UserData.present
        \/ k = 4 /\ t.NetworkCheck.present}

\* C37: identifyModule fails only when the declaration provides no
\* sub-configuration; when it provides one, also one whose fields are
\* omitted or carry zero or default values, the module gets that
\* sub-configuration's type
C37_IdentifiesProvidedDefaults ==
    idResult # << >> =>
        /\ idResult[1].err => Provided(idToml) = {}
        /\ \A k \in 1..Len(SubConfigs) :
            Provided(idToml) = {k} => idResult[1].Type = SubConfigs[k].tag

\* C38: when SystemConfigModule.Do has waited for its goroutines, every
\* configured Defaults entry has been applied exactly once: the goroutine
\* started for an entry has operated on that entry
C38_EachDefaultAppliedOnce ==
    dfPc = "returned" =>
        \A k \in 1..Len(dfEntries) : dfDid[k] = << dfEntries[k] >>

\* C39: a call of randomizePassword that has disabled secure-token creation
\* has, when it returns, called enableSecureTokenCreation once, after the
\* success of the password change as after a failure of the password
\* generation or change; if that call failed, randomizePassword returns an
\* error and an empty message
C39_SecureTokenReEnabled ==
    (pwPc = "returned" /\ pwDefer) =>
        /\ pwEnableCalls = 1
        /\ pwEnableErr => (pwResult[1].err # "" /\ pwResult[1].message = "")

\* the password was changed and enabling secure-token creation failed: the
\* call returns an error and no message
C39_Witness ==
    /\ pwPc = "returned"
    /\ pwDefer
    /\ pwPasswordSet
    /\ pwCalls = 1
    /\ pwEnableErr
    /\ pwResult = << Returns("", "enable ") >>

\* C40: with attempts >= 1, retry calls f at most attempts times, makes no
\* call after one that returned nil and then returns nil, and returns an
\* error exactly when f was called attempts times and every call returned an
\* error
C40_RetryBounded ==
    rtAttempts >= 1 =>
        /\ Len(rtOutcomes) <= rtAttempts
        /\ \A k \in 1..(Len(rtOutcomes) - 1) : rtOutcomes[k]
        /\ rtPc = "returned" =>
            /\ ~rtOutcomes[Len(rtOutcomes)] => rtErr = << FALSE >>
            /\ rtErr = << TRUE >> <=>
                (Len(rtOutcomes) = rtAttempts /\ \A k \in 1..rtAttempts : rtOutcomes[k])

\* f failed twice and then returned nil, with two sleeps in between: retry
\* returned nil with an attempt to spare
C40_Witness ==
    /\ rtPc = "returned"
    /\ rtAttempts = 4
    /\ rtOutcomes = << TRUE, TRUE, FALSE >>
    /\ rtSlept = 2
    /\ rtErr = << FALSE >>
====
